---- MODULE Spec2Model ----
(***************************************************************************)
(* Model of the user store (internal/repository/memory_user_repository.go), *)
(* the user service and the auth service (internal/services) and the       *)
(* status mapping of the HTTP handlers (internal/handlers).                *)
(*                                                                         *)
(* Every store method runs under the store's mutex, so one store call is   *)
(* one atomic step.  A service method is a sequence of store calls; each   *)
(* process of Procs runs one service method at a time, one store call per  *)
(* step, so that the store calls of concurrent requests interleave.        *)
(* SpecLock follows each store call through the mutex instead: call,       *)
(* acquisition, body and deferred unlock are steps of their own.           *)
(***************************************************************************)
EXTENDS Integers, Sequences, FiniteSets, TLC

\* ---------------------------------------------------------------- bounds
\* Number of calls (service calls and direct store calls) the goroutines may
\* start, all together.
MaxCalls == 2
\* Number of direct store calls in a run of store calls only.
MaxStoreCalls == 4

\* ------------------------------------------------------------- constants
Procs == {1, 2}

\* time.Time zero value / nil *time.Time
ZeroTime == 0
\* nil *string (phone, address)
NilStr == "<nil>"
\* nil *string of a token field; the n-th uuid.New() is the token n > 0
NilToken == 0

\* store errors
NoErr == "ok"
ErrRecordNotFound == "record not found"
ErrEmailExists == "email already exists"

\* service errors
ErrUserNotFound == "user not found"
ErrUserExists == "user with this email already exists"
ErrInvalidLogin == "invalid email or password"
ErrDeactivated == "account is deactivated"
ErrPasswordMismatch == "passwords do not match"
ErrInvalidReset == "invalid or expired reset token"
ErrCurrentIncorrect == "current password is incorrect"

\* request values
Emails == {"john@example.com", "new@example.com"}
\* ids named in requests: a seeded user, the first created user, nobody
Ids == {0, 1, 4}
SvcName == "Test User"
Passwords == {"password123", "wrongpass"}
ReqPhone == "+1234567890"
\* the new password of a ChangePassword or ResetPassword request
NewPassword == "newpassword456"
\* an email no record ever has
NoEmail == "nonexistent@example.com"
\* the reset token of the record the repository test creates
TestResetToken == 99

\* JWT_EXPIRE_HOUR, in clock units
JwtExpiry == 3

\* time.Hour, the lifetime of a reset token, in clock units
ResetExpiry == 2

\* cfg.JWT.Secret, the key the service signs and verifies with, and a key
\* that is not the service's
JwtSecret == "jwt-secret"
OtherSecret == "other-secret"

\* jwt.Parse errors
ErrTokenMalformed == "token is malformed"
ErrTokenSignature == "token signature is invalid"
ErrTokenExpired == "token is expired"

\* AuthMiddleware and EnhancedAuthMiddleware errors
ErrHeaderRequired == "Authorization header required"
ErrHeaderFormat == "Invalid authorization format"
ErrMwUserNotFound == "User not found"
ErrMwDeactivated == "Account is deactivated"

\* HTTP status codes
StatusOK == 200
StatusCreated == 201
StatusBadRequest == 400
StatusUnauthorized == 401
StatusNotFound == 404
StatusConflict == 409
StatusInternalServerError == 500

\* bcrypt.GenerateFromPassword: the stored string is never the plaintext.
Hash(p) == "bcrypt:" \o p

\* bcrypt.CompareHashAndPassword: nil error exactly for the hashed plaintext
\* (an empty stored password is not a hash and never verifies).
CompareHashAndPassword(h, p) == h = Hash(p)

\* ------------------------------------------------------------------ state
VARIABLES
    users,      \* InMemoryUserRepository.users (slice, insertion order)
    nextID,     \* InMemoryUserRepository.nextID
    clock,      \* the value time.Now() returns
    pc,         \* per request goroutine: position inside its service method
    req,        \* per request goroutine: the request being served
    usr,        \* per request goroutine: the *models.User it holds
    ret,        \* per request goroutine: outcome of its latest finished call
    calls,      \* per request goroutine: service calls started so far
    uuids,      \* number of uuid.New() calls so far
    mutex       \* InMemoryUserRepository.mutex

vars == <<users, nextID, clock, pc, req, usr, ret, calls, uuids, mutex>>

\* models.User with every field at its Go zero value
ZeroUser ==
    [id |-> 0, createdAt |-> ZeroTime, updatedAt |-> ZeroTime,
     deletedAt |-> ZeroTime, name |-> "", email |-> "", password |-> "",
     phone |-> NilStr, address |-> NilStr, isActive |-> FALSE,
     isEmailVerified |-> FALSE, emailVerificationToken |-> NilToken,
     passwordResetToken |-> NilToken, passwordResetExpiry |-> ZeroTime,
     lastLoginAt |-> ZeroTime]

\* nil *models.User
NoUser == [ZeroUser EXCEPT !.name = "<no user>"]

\* the sample data of NewInMemoryUserRepository, created at time now
SeedUsers(now) ==
    << [ZeroUser EXCEPT !.id = 1, !.name = "John Doe",
            !.email = "john@example.com", !.phone = "+1-555-0101",
            !.address = "123 Main St, New York, NY 10001",
            !.createdAt = now, !.updatedAt = now],
       [ZeroUser EXCEPT !.id = 2, !.name = "Jane Smith",
            !.email = "jane@example.com", !.phone = "+1-555-0102",
            !.address = "456 Oak Ave, Los Angeles, CA 90210",
            !.createdAt = now, !.updatedAt = now],
       [ZeroUser EXCEPT !.id = 3, !.name = "Bob Johnson",
            !.email = "bob@example.com", !.phone = "+1-555-0103",
            !.createdAt = now, !.updatedAt = now] >>

\* ------------------------------------------------------- store, pure part
\* user.DeletedAt.Time.IsZero()
NotDeleted(u) == u.deletedAt = ZeroTime

Min(S) == CHOOSE x \in S : \A y \in S : x <= y

\* index of the first element a range loop stops at, 0 when none; hits are
\* the indices of the elements that pass the test in the loop body
FirstIndex(hits) == IF hits = {} THEN 0 ELSE Min(hits)

RECURSIVE SelectNotDeleted(_)
SelectNotDeleted(us) ==
    IF us = <<>> THEN <<>>
    ELSE IF NotDeleted(Head(us))
         THEN <<Head(us)>> \o SelectNotDeleted(Tail(us))
         ELSE SelectNotDeleted(Tail(us))

\* InMemoryUserRepository.GetAll
GetAll(us) == SelectNotDeleted(us)

\* InMemoryUserRepository.GetByID
GetByID(us, id) ==
    LET i == FirstIndex({k \in DOMAIN us :
                              us[k].id = id /\ NotDeleted(us[k])})
    IN  IF i = 0 THEN [err |-> ErrRecordNotFound, user |-> NoUser]
        ELSE [err |-> NoErr, user |-> us[i]]

\* GetByEmail without the DeletedAt test: a deleted record is found too
GetByEmail_IncludeDeleted(us, email) ==
    LET i == FirstIndex({k \in DOMAIN us : us[k].email = email})
    IN  IF i = 0 THEN [err |-> ErrRecordNotFound, user |-> NoUser]
        ELSE [err |-> NoErr, user |-> us[i]]

\* InMemoryUserRepository.GetByEmail
GetByEmail(us, email) ==
    LET i == FirstIndex({k \in DOMAIN us :
                              us[k].email = email /\ NotDeleted(us[k])})
    IN  IF i = 0 THEN [err |-> ErrRecordNotFound, user |-> NoUser]
        ELSE [err |-> NoErr, user |-> us[i]]

\* GetByPasswordResetToken: exact match of the token among the non-deleted
\* records; the expiry is not looked at
GetByPasswordResetToken(us, token) ==
    LET i == FirstIndex({k \in DOMAIN us :
                              us[k].passwordResetToken = token
                                  /\ NotDeleted(us[k])})
    IN  IF i = 0 THEN [err |-> ErrRecordNotFound, user |-> NoUser]
        ELSE [err |-> NoErr, user |-> us[i]]

RECURSIVE CountFrom(_, _)
CountFrom(us, i) ==
    IF i > Len(us) THEN 0
    ELSE (IF NotDeleted(us[i]) THEN 1 ELSE 0) + CountFrom(us, i + 1)

\* Count without the DeletedAt test: every record is counted
Count_All(us) == Len(us)

\* InMemoryUserRepository.Count
Count(us) == CountFrom(us, 1)

\* Create without the duplicate-email loop
Create_NoEmailCheck(us, nid, now, u) ==
    LET nu == [u EXCEPT !.id = nid, !.createdAt = now, !.updatedAt = now]
    IN  [err |-> NoErr, users |-> Append(us, nu), nextID |-> nid + 1,
         user |-> nu]

\* Create that numbers the new record by the count of non-deleted records
\* instead of by nextID
Create_ReuseID(us, nid, now, u) ==
    IF \E i \in DOMAIN us : us[i].email = u.email /\ NotDeleted(us[i])
    THEN [err |-> ErrEmailExists, users |-> us, nextID |-> nid, user |-> u]
    ELSE LET nu == [u EXCEPT !.id = CountFrom(us, 1) + 1, !.createdAt = now,
                             !.updatedAt = now]
         IN  [err |-> NoErr, users |-> Append(us, nu), nextID |-> nid + 1,
              user |-> nu]

\* Create that appends *user before it assigns id and timestamps
Create_AppendFirst(us, nid, now, u) ==
    IF \E i \in DOMAIN us : us[i].email = u.email /\ NotDeleted(us[i])
    THEN [err |-> ErrEmailExists, users |-> us, nextID |-> nid, user |-> u]
    ELSE LET nu == [u EXCEPT !.id = nid, !.createdAt = now, !.updatedAt = now]
         IN  [err |-> NoErr, users |-> Append(us, u), nextID |-> nid + 1,
              user |-> nu]

\* InMemoryUserRepository.Create: the store after the call, the error and
\* the caller's *user after the call
Create(us, nid, now, u) ==
    IF \E i \in DOMAIN us : us[i].email = u.email /\ NotDeleted(us[i])
    THEN [err |-> ErrEmailExists, users |-> us, nextID |-> nid, user |-> u]
    ELSE LET nu == [u EXCEPT !.id = nid, !.createdAt = now, !.updatedAt = now]
         IN  [err |-> NoErr, users |-> Append(us, nu), nextID |-> nid + 1,
              user |-> nu]

\* Update without the duplicate-email loop
Update_NoEmailCheck(us, now, u) ==
    LET i == FirstIndex({k \in DOMAIN us :
                              us[k].id = u.id /\ NotDeleted(us[k])})
    IN  IF i = 0
        THEN [err |-> ErrRecordNotFound, users |-> us, user |-> u]
        ELSE LET nu == [u EXCEPT !.updatedAt = now,
                                 !.createdAt = us[i].createdAt]
             IN  [err |-> NoErr, users |-> [us EXCEPT ![i] = nu], user |-> nu]

\* Update that stores the caller's UpdatedAt instead of time.Now()
Update_KeepUpdatedAt(us, now, u) ==
    LET i == FirstIndex({k \in DOMAIN us :
                              us[k].id = u.id /\ NotDeleted(us[k])})
    IN  IF i = 0
        THEN [err |-> ErrRecordNotFound, users |-> us, user |-> u]
        ELSE IF \E j \in DOMAIN us :
                    us[j].email = u.email /\ us[j].id # u.id /\ NotDeleted(us[j])
        THEN [err |-> ErrEmailExists, users |-> us, user |-> u]
        ELSE LET nu == [u EXCEPT !.createdAt = us[i].createdAt]
             IN  [err |-> NoErr, users |-> [us EXCEPT ![i] = nu], user |-> nu]

\* InMemoryUserRepository.Update
Update(us, now, u) ==
    LET i == FirstIndex({k \in DOMAIN us :
                              us[k].id = u.id /\ NotDeleted(us[k])})
    IN  IF i = 0
        THEN [err |-> ErrRecordNotFound, users |-> us, user |-> u]
        ELSE IF \E j \in DOMAIN us :
                    us[j].email = u.email /\ us[j].id # u.id /\ NotDeleted(us[j])
        THEN [err |-> ErrEmailExists, users |-> us, user |-> u]
        ELSE LET nu == [u EXCEPT !.updatedAt = now,
                                 !.createdAt = us[i].createdAt]
             IN  [err |-> NoErr, users |-> [us EXCEPT ![i] = nu], user |-> nu]

\* Delete without the DeletedAt test: a deleted record is deleted again
Delete_NoDeletedCheck(us, now, id) ==
    LET i == FirstIndex({k \in DOMAIN us :
                              us[k].id = id})
    IN  IF i = 0
        THEN [err |-> ErrRecordNotFound, users |-> us]
        ELSE [err |-> NoErr, users |-> [us EXCEPT ![i].deletedAt = now]]

\* InMemoryUserRepository.Delete
Delete(us, now, id) ==
    LET i == FirstIndex({k \in DOMAIN us :
                              us[k].id = id /\ NotDeleted(us[k])})
    IN  IF i = 0
        THEN [err |-> ErrRecordNotFound, users |-> us]
        ELSE [err |-> NoErr, users |-> [us EXCEPT ![i].deletedAt = now]]

\* InMemoryUserRepository.Reset: the sample data again, created at time now
Reset(now) == [users |-> SeedUsers(now), nextID |-> 4]

\* ---------------------------------------------------------------- Init
\* the empty token string
NoToken == [userID |-> 0, email |-> "", iat |-> 0, exp |-> 0, secret |-> ""]
\* the empty Authorization header; a header is recorded as the number of
\* parts strings.Split(header, " ") gives, the first part and the token the
\* second part is
NoHeader == [parts |-> 0, scheme |-> "", token |-> NoToken]
NoRet == [op |-> "none", err |-> NoErr, status |-> 0, token |-> NoToken,
          user |-> NoUser, seen |-> NoUser, arg |-> NoUser, all |-> <<>>,
          count |-> 0]
NoReq == [id |-> 0, email |-> "", name |-> "", password |-> "",
          confirm |-> "", with |-> {}, route |-> "", header |-> NoHeader,
          current |-> "", resetToken |-> NilToken, op |-> ""]

\* the zero value of sync.RWMutex: no goroutine holds it as writer (w) or as
\* reader (r), and no goroutine's Lock() waits for the readers to leave
\* (pending)
Unlocked == [w |-> 0, r |-> {}, pending |-> 0]

Init ==
    /\ users = SeedUsers(1)
    /\ nextID = 4
    /\ clock = 2
    /\ pc = [p \in Procs |-> "idle"]
    /\ req = [p \in Procs |-> NoReq]
    /\ usr = [p \in Procs |-> NoUser]
    /\ ret = [p \in Procs |-> NoRet]
    /\ calls = [p \in Procs |-> 0]
    /\ uuids = 0
    /\ mutex = Unlocked

\* a successful write reads the clock; the next reading is later
Tick(err) == clock' = IF err = NoErr THEN clock + 1 ELSE clock

\* ------------------------------------------------------- services, pure part
\* AuthServiceImpl.generateJWTToken: the claims of the signed token
GenerateJWTToken(userID, email, now) ==
    [userID |-> userID, email |-> email, iat |-> now, exp |-> now + JwtExpiry,
     secret |-> JwtSecret]

\* ValidateToken that does not look at the expiry claim
ValidateToken_NoExpiry(tok, secret, now) ==
    IF tok = NoToken THEN [err |-> ErrTokenMalformed, claims |-> NoToken]
    ELSE IF tok.secret # secret
         THEN [err |-> ErrTokenSignature, claims |-> NoToken]
    ELSE [err |-> NoErr, claims |-> tok]

\* AuthServiceImpl.ValidateToken: jwt.Parse checks the form of the string,
\* then the signature against the service's secret, then the exp claim,
\* which must lie after now
ValidateToken(tok, secret, now) ==
    IF tok = NoToken THEN [err |-> ErrTokenMalformed, claims |-> NoToken]
    ELSE IF tok.secret # secret
         THEN [err |-> ErrTokenSignature, claims |-> NoToken]
    ELSE IF ~(now < tok.exp)
         THEN [err |-> ErrTokenExpired, claims |-> NoToken]
    ELSE [err |-> NoErr, claims |-> tok]

\* Logout that does not look the user up
Logout_Always(us, userID) == NoErr

\* AuthServiceImpl.Logout
Logout(us, userID) ==
    IF GetByID(us, userID).err # NoErr THEN ErrUserNotFound ELSE NoErr

\* RefreshToken that issues a token to every user the store still holds
RefreshToken_NoActiveCheck(us, userID, now) ==
    LET g == GetByID(us, userID)
    IN  IF g.err # NoErr
        THEN [err |-> ErrUserNotFound, user |-> NoUser, token |-> NoToken]
        ELSE [err |-> NoErr, user |-> g.user,
              token |-> GenerateJWTToken(g.user.id, g.user.email, now)]

\* AuthServiceImpl.RefreshToken
RefreshToken(us, userID, now) ==
    LET g == GetByID(us, userID)
    IN  IF g.err # NoErr
        THEN [err |-> ErrUserNotFound, user |-> NoUser, token |-> NoToken]
        ELSE IF ~g.user.isActive
        THEN [err |-> ErrDeactivated, user |-> NoUser, token |-> NoToken]
        ELSE [err |-> NoErr, user |-> g.user,
              token |-> GenerateJWTToken(g.user.id, g.user.email, now)]

\* UserServiceImpl.GetUserByID
GetUserByID(us, id) ==
    LET g == GetByID(us, id)
    IN  IF g.err = ErrRecordNotFound
        THEN [err |-> ErrUserNotFound, user |-> NoUser]
        ELSE g

\* Login that answers an unknown email with its own error
LoginCheck_Reveal(g, password) ==
    IF g.err # NoErr THEN ErrUserNotFound
    ELSE IF ~g.user.isActive THEN ErrDeactivated
    ELSE IF ~CompareHashAndPassword(g.user.password, password)
         THEN ErrInvalidLogin
    ELSE NoErr

\* Login that verifies the password before it tests the active flag
LoginCheck_PasswordFirst(g, password) ==
    IF g.err # NoErr THEN ErrInvalidLogin
    ELSE IF ~CompareHashAndPassword(g.user.password, password)
         THEN ErrInvalidLogin
    ELSE IF ~g.user.isActive THEN ErrDeactivated
    ELSE NoErr

\* AuthServiceImpl.Login up to the password check: g is what GetByEmail
\* returned
LoginCheck(g, password) ==
    IF g.err # NoErr THEN ErrInvalidLogin
    ELSE IF ~g.user.isActive THEN ErrDeactivated
    ELSE IF ~CompareHashAndPassword(g.user.password, password)
         THEN ErrInvalidLogin
    ELSE NoErr

\* AuthMiddleware that takes any two-part header for a bearer token
AuthMiddleware_AnyScheme(h, now) ==
    LET v == ValidateToken(h.token, JwtSecret, now)
    IN  IF h = NoHeader
        THEN [err |-> ErrHeaderRequired, status |-> StatusUnauthorized,
              userID |-> 0, email |-> ""]
        ELSE IF h.parts # 2
        THEN [err |-> ErrHeaderFormat, status |-> StatusUnauthorized,
              userID |-> 0, email |-> ""]
        ELSE IF v.err # NoErr
        THEN [err |-> v.err, status |-> StatusUnauthorized,
              userID |-> 0, email |-> ""]
        ELSE [err |-> NoErr, status |-> StatusOK,
              userID |-> v.claims.userID, email |-> v.claims.email]

\* AuthMiddleware: the answer it gives itself, or err = NoErr and the
\* user_id and email it sets in the context before c.Next()
AuthMiddleware(h, now) ==
    LET v == ValidateToken(h.token, JwtSecret, now)
    IN  IF h = NoHeader
        THEN [err |-> ErrHeaderRequired, status |-> StatusUnauthorized,
              userID |-> 0, email |-> ""]
        ELSE IF h.parts # 2 \/ h.scheme # "Bearer"
        THEN [err |-> ErrHeaderFormat, status |-> StatusUnauthorized,
              userID |-> 0, email |-> ""]
        ELSE IF v.err # NoErr
        THEN [err |-> v.err, status |-> StatusUnauthorized,
              userID |-> 0, email |-> ""]
        ELSE [err |-> NoErr, status |-> StatusOK,
              userID |-> v.claims.userID, email |-> v.claims.email]

\* EnhancedAuthMiddleware that admits every user the store still holds
EnhancedAuthMiddleware_NoActiveCheck(us, h, now) ==
    LET mw == AuthMiddleware(h, now)
        g == GetUserByID(us, mw.userID)
    IN  IF mw.err # NoErr
        THEN [err |-> mw.err, status |-> mw.status, userID |-> 0,
              email |-> "", user |-> NoUser]
        ELSE IF g.err # NoErr
        THEN [err |-> ErrMwUserNotFound, status |-> StatusUnauthorized,
              userID |-> 0, email |-> "", user |-> NoUser]
        ELSE [err |-> NoErr, status |-> StatusOK, userID |-> mw.userID,
              email |-> g.user.email, user |-> g.user]

\* EnhancedAuthMiddleware: the header and token checks of AuthMiddleware,
\* then GetUserByID of the token's user and the active flag
EnhancedAuthMiddleware(us, h, now) ==
    LET mw == AuthMiddleware(h, now)
        g == GetUserByID(us, mw.userID)
    IN  IF mw.err # NoErr
        THEN [err |-> mw.err, status |-> mw.status, userID |-> 0,
              email |-> "", user |-> NoUser]
        ELSE IF g.err # NoErr
        THEN [err |-> ErrMwUserNotFound, status |-> StatusUnauthorized,
              userID |-> 0, email |-> "", user |-> NoUser]
        ELSE IF ~g.user.isActive
        THEN [err |-> ErrMwDeactivated, status |-> StatusUnauthorized,
              userID |-> 0, email |-> "", user |-> NoUser]
        ELSE [err |-> NoErr, status |-> StatusOK, userID |-> mw.userID,
              email |-> g.user.email, user |-> g.user]

\* ResetPassword that accepts a token whatever its expiry
ResetPasswordCheck_NoExpiry(g, password, confirm, now) ==
    IF password # confirm THEN ErrPasswordMismatch
    ELSE IF g.err # NoErr THEN ErrInvalidReset
    ELSE NoErr

\* AuthServiceImpl.ResetPassword up to the expiry check: g is what
\* GetByPasswordResetToken returned
ResetPasswordCheck(g, password, confirm, now) ==
    IF password # confirm THEN ErrPasswordMismatch
    ELSE IF g.err # NoErr THEN ErrInvalidReset
    ELSE IF g.user.passwordResetExpiry = ZeroTime
              \/ now > g.user.passwordResetExpiry
         THEN ErrInvalidReset
    ELSE NoErr

\* ChangePassword that does not verify the current password
ChangePasswordCheck_NoCurrent(g, current, password, confirm) ==
    IF password # confirm THEN ErrPasswordMismatch
    ELSE IF g.err # NoErr THEN ErrUserNotFound
    ELSE NoErr

\* AuthServiceImpl.ChangePassword up to the check of the current password:
\* g is what GetByID returned
ChangePasswordCheck(g, current, password, confirm) ==
    IF password # confirm THEN ErrPasswordMismatch
    ELSE IF g.err # NoErr THEN ErrUserNotFound
    ELSE IF ~CompareHashAndPassword(g.user.password, current)
         THEN ErrCurrentIncorrect
    ELSE NoErr

\* the record ChangePassword and ResetPassword hand to Update, with the
\* plaintext in the password field
WithPassword_Plain(u, password) == [u EXCEPT !.password = password]

\* the record ChangePassword and ResetPassword hand to Update:
\* user.Password = string(hashedPassword)
WithPassword(u, password) == [u EXCEPT !.password = Hash(password)]

\* AuthHandler.ForgotPassword
ForgotPasswordStatus(err) ==
    IF err # NoErr THEN StatusInternalServerError ELSE StatusOK

\* AuthHandler.ResetPassword
ResetPasswordStatus(err) == IF err # NoErr THEN StatusBadRequest ELSE StatusOK

\* AuthHandler.ChangePassword
ChangePasswordStatus(err) == IF err # NoErr THEN StatusBadRequest ELSE StatusOK

\* AuthHandler.Logout
LogoutStatus(err) ==
    IF err # NoErr THEN StatusInternalServerError ELSE StatusOK

\* AuthHandler.RefreshToken
RefreshTokenStatus(err) ==
    IF err # NoErr THEN StatusUnauthorized ELSE StatusOK

\* AuthHandler.Login
LoginStatus(err) == IF err # NoErr THEN StatusUnauthorized ELSE StatusOK

\* AuthHandler.Register
RegisterStatus(err) == IF err # NoErr THEN StatusBadRequest ELSE StatusCreated

\* UserHandler.CreateUser
CreateUserStatus(err) ==
    IF err = NoErr THEN StatusCreated
    ELSE IF err = ErrUserExists THEN StatusConflict
    ELSE StatusInternalServerError

\* UserHandler.UpdateUser
UpdateUserStatus(err) ==
    IF err = NoErr THEN StatusOK
    ELSE IF err = ErrUserNotFound THEN StatusNotFound
    ELSE IF err = ErrUserExists THEN StatusBadRequest
    ELSE StatusInternalServerError

\* UserHandler.DeleteUser
DeleteUserStatus(err) ==
    IF err = NoErr THEN StatusOK
    ELSE IF err = ErrUserNotFound THEN StatusNotFound
    ELSE StatusInternalServerError

\* ------------------------------------------------------- service calls
storeVars == <<users, nextID, clock, mutex>>

\* the calls of the other goroutines that are running right now
Running(p) == {<<q, calls[q]>> : q \in {x \in Procs \ {p} : pc[x] # "idle"}}

RECURSIVE SumOver(_, _)
SumOver(f, S) ==
    IF S = {} THEN 0
    ELSE LET x == CHOOSE y \in S : TRUE IN f[x] + SumOver(f, S \ {x})

\* service calls started so far
Started == SumOver(calls, Procs)

\* goroutine p starts serving request r
Begin(p, r) ==
    /\ pc[p] = "idle"
    /\ calls' = [calls EXCEPT ![p] = @ + 1]
    /\ req' = [req EXCEPT ![p] = [r EXCEPT !.with = Running(p)]]

\* goroutine p answers its request
Finish(p, op, err, status, token, user, seen) ==
    /\ pc' = [pc EXCEPT ![p] = "idle"]
    /\ ret' = [ret EXCEPT ![p] = [op |-> op, err |-> err, status |-> status,
                                  token |-> token, user |-> user,
                                  seen |-> seen, arg |-> NoUser,
                                  all |-> <<>>, count |-> 0]]

\* UserServiceImpl.CreateUser, up to and including GetByEmail; the request
\* carries a password, which the service does not read
StartCreateUser(p, email, name) ==
    LET g == GetByEmail(users, email)
    IN  /\ Begin(p, [NoReq EXCEPT !.email = email, !.name = name,
                                  !.password = "password123"])
        /\ IF g.err = NoErr
           THEN /\ Finish(p, "CreateUser", ErrUserExists,
                          CreateUserStatus(ErrUserExists), NoToken, NoUser,
                          g.user)
                /\ UNCHANGED usr
           ELSE /\ pc' = [pc EXCEPT ![p] = "cu_create"]
                /\ usr' = [usr EXCEPT ![p] =
                              [ZeroUser EXCEPT !.name = name, !.email = email,
                                               !.phone = ReqPhone]]
                /\ UNCHANGED ret
        /\ UNCHANGED <<storeVars, uuids>>

\* UserServiceImpl.CreateUser, userRepo.Create and the return
CreateUserCreate(p) ==
    LET r == Create(users, nextID, clock, usr[p])
    IN  /\ pc[p] = "cu_create"
        /\ users' = r.users
        /\ nextID' = r.nextID
        /\ Tick(r.err)
        /\ Finish(p, "CreateUser", r.err, CreateUserStatus(r.err), NoToken,
                  IF r.err = NoErr THEN r.user ELSE NoUser, NoUser)
        /\ UNCHANGED <<req, usr, calls, uuids, mutex>>

\* UserServiceImpl.UpdateUser, up to and including GetByID, serving request r
UpdateUserOf(p, r) ==
    LET g == GetByID(users, r.id)
    IN  /\ Begin(p, r)
        /\ IF g.err # NoErr
           THEN /\ Finish(p, "UpdateUser", ErrUserNotFound,
                          UpdateUserStatus(ErrUserNotFound), NoToken, NoUser,
                          NoUser)
                /\ UNCHANGED usr
           ELSE /\ pc' = [pc EXCEPT ![p] =
                            IF r.email # g.user.email THEN "uu_check"
                            ELSE "uu_update"]
                /\ usr' = [usr EXCEPT ![p] = g.user]
                /\ UNCHANGED ret
        /\ UNCHANGED <<storeVars, uuids>>

StartUpdateUser(p, id, email, name) ==
    UpdateUserOf(p, [NoReq EXCEPT !.id = id, !.email = email, !.name = name])

\* UserServiceImpl.UpdateUser, GetByEmail of the new email
UpdateUserCheck(p) ==
    LET g == GetByEmail(users, req[p].email)
    IN  /\ pc[p] = "uu_check"
        /\ IF g.err = NoErr /\ g.user.id # req[p].id
           THEN Finish(p, "UpdateUser", ErrUserExists,
                       UpdateUserStatus(ErrUserExists), NoToken, NoUser,
                       usr[p])
           ELSE /\ pc' = [pc EXCEPT ![p] = "uu_update"]
                /\ UNCHANGED ret
        /\ UNCHANGED <<storeVars, req, usr, calls, uuids>>

\* UserServiceImpl.UpdateUser, the field overwrite, userRepo.Update and the
\* return
UpdateUserUpdate(p) ==
    LET u == [usr[p] EXCEPT !.name = req[p].name, !.email = req[p].email,
                            !.phone = ReqPhone, !.address = NilStr]
        r == Update(users, clock, u)
    IN  /\ pc[p] = "uu_update"
        /\ users' = r.users
        /\ Tick(r.err)
        /\ Finish(p, "UpdateUser", r.err, UpdateUserStatus(r.err), NoToken,
                  IF r.err = NoErr THEN r.user ELSE NoUser, usr[p])
        /\ UNCHANGED <<nextID, req, usr, calls, uuids, mutex>>

\* UserServiceImpl.DeleteUser, up to and including GetByID, serving request r
DeleteUserOf(p, r) ==
    LET g == GetByID(users, r.id)
    IN  /\ Begin(p, r)
        /\ IF g.err # NoErr
           THEN Finish(p, "DeleteUser", ErrUserNotFound,
                       DeleteUserStatus(ErrUserNotFound), NoToken, NoUser,
                       NoUser)
           ELSE /\ pc' = [pc EXCEPT ![p] = "du_delete"]
                /\ UNCHANGED ret
        /\ UNCHANGED <<storeVars, usr, uuids>>

StartDeleteUser(p, id) == DeleteUserOf(p, [NoReq EXCEPT !.id = id])

\* UserServiceImpl.DeleteUser, userRepo.Delete and the return
DeleteUserDelete(p) ==
    LET r == Delete(users, clock, req[p].id)
    IN  /\ pc[p] = "du_delete"
        /\ users' = r.users
        /\ Tick(r.err)
        /\ Finish(p, "DeleteUser", r.err, DeleteUserStatus(r.err), NoToken,
                  NoUser, NoUser)
        /\ UNCHANGED <<nextID, req, usr, calls, uuids, mutex>>

\* AuthServiceImpl.Register, up to and including GetByEmail, the hash and the
\* verification token
StartRegister(p, email, name, password, confirm) ==
    LET g == GetByEmail(users, email)
        err == IF password # confirm THEN ErrPasswordMismatch
               ELSE IF g.err = NoErr THEN ErrUserExists
               ELSE NoErr
    IN  /\ Begin(p, [NoReq EXCEPT !.email = email, !.name = name,
                                  !.password = password, !.confirm = confirm])
        /\ IF err # NoErr
           THEN /\ Finish(p, "Register", err, RegisterStatus(err), NoToken,
                          NoUser,
                          IF password # confirm THEN NoUser ELSE g.user)
                /\ UNCHANGED <<usr, uuids>>
           ELSE /\ pc' = [pc EXCEPT ![p] = "reg_create"]
                /\ uuids' = uuids + 1
                /\ usr' = [usr EXCEPT ![p] =
                              [ZeroUser EXCEPT
                                  !.name = name, !.email = email,
                                  !.password = Hash(password),
                                  !.phone = ReqPhone, !.isActive = TRUE,
                                  !.isEmailVerified = FALSE,
                                  !.emailVerificationToken = uuids + 1]]
                /\ UNCHANGED ret
        /\ UNCHANGED storeVars

\* AuthServiceImpl.Register, userRepo.Create, the token and last-login
RegisterCreate(p) ==
    LET r == Create(users, nextID, clock, usr[p])
    IN  /\ pc[p] = "reg_create"
        /\ users' = r.users
        /\ nextID' = r.nextID
        /\ Tick(r.err)
        /\ IF r.err # NoErr
           THEN /\ Finish(p, "Register", r.err, RegisterStatus(r.err), NoToken,
                          NoUser, NoUser)
                /\ UNCHANGED usr
           ELSE /\ pc' = [pc EXCEPT ![p] = "reg_update"]
                /\ usr' = [usr EXCEPT ![p] =
                              [r.user EXCEPT !.lastLoginAt = clock']]
                /\ UNCHANGED ret
        /\ UNCHANGED <<req, calls, uuids, mutex>>

\* AuthServiceImpl.Register, userRepo.Update (its error is dropped) and the
\* return
RegisterUpdate(p) ==
    LET r == Update(users, clock, usr[p])
    IN  /\ pc[p] = "reg_update"
        /\ users' = r.users
        /\ Tick(r.err)
        /\ Finish(p, "Register", NoErr, RegisterStatus(NoErr),
                  GenerateJWTToken(usr[p].id, usr[p].email,
                                   usr[p].lastLoginAt),
                  r.user, NoUser)
        /\ UNCHANGED <<nextID, req, usr, calls, uuids, mutex>>

\* AuthServiceImpl.Login, up to and including the token and last-login
StartLogin(p, email, password) ==
    LET g == GetByEmail(users, email)
        err == LoginCheck(g, password)
    IN  /\ Begin(p, [NoReq EXCEPT !.email = email, !.password = password])
        /\ IF err # NoErr
           THEN /\ Finish(p, "Login", err, LoginStatus(err), NoToken, NoUser,
                          g.user)
                /\ UNCHANGED usr
           ELSE /\ pc' = [pc EXCEPT ![p] = "login_update"]
                /\ usr' = [usr EXCEPT ![p] =
                              [g.user EXCEPT !.lastLoginAt = clock]]
                /\ UNCHANGED ret
        /\ UNCHANGED <<storeVars, uuids>>

\* AuthServiceImpl.Login, userRepo.Update (its error is dropped) and the
\* return
LoginUpdate(p) ==
    LET r == Update(users, clock, usr[p])
    IN  /\ pc[p] = "login_update"
        /\ users' = r.users
        /\ Tick(r.err)
        /\ Finish(p, "Login", NoErr, LoginStatus(NoErr),
                  GenerateJWTToken(usr[p].id, usr[p].email,
                                   usr[p].lastLoginAt),
                  r.user, usr[p])
        /\ UNCHANGED <<nextID, req, usr, calls, uuids, mutex>>

\* AuthServiceImpl.ForgotPassword, up to and including GetByEmail
StartForgotPassword(p, email) ==
    LET g == GetByEmail(users, email)
    IN  /\ Begin(p, [NoReq EXCEPT !.email = email])
        /\ IF g.err # NoErr
           THEN /\ Finish(p, "ForgotPassword", NoErr,
                          ForgotPasswordStatus(NoErr), NoToken, NoUser, NoUser)
                /\ UNCHANGED usr
           ELSE /\ pc' = [pc EXCEPT ![p] = "fp_update"]
                /\ usr' = [usr EXCEPT ![p] = g.user]
                /\ UNCHANGED ret
        /\ UNCHANGED <<storeVars, uuids>>

\* AuthServiceImpl.ForgotPassword, the reset token, its expiry, userRepo.Update
\* and the return
ForgotPasswordUpdate(p) ==
    LET u == [usr[p] EXCEPT !.passwordResetToken = uuids + 1,
                            !.passwordResetExpiry = clock + ResetExpiry]
        r == Update(users, clock, u)
    IN  /\ pc[p] = "fp_update"
        /\ uuids' = uuids + 1
        /\ users' = r.users
        /\ Tick(r.err)
        /\ Finish(p, "ForgotPassword", r.err, ForgotPasswordStatus(r.err),
                  NoToken, IF r.err = NoErr THEN r.user ELSE NoUser, usr[p])
        /\ UNCHANGED <<nextID, req, usr, calls, mutex>>

\* AuthServiceImpl.ResetPassword, up to and including the expiry check
StartResetPassword(p, token, password, confirm) ==
    LET g == GetByPasswordResetToken(users, token)
        err == ResetPasswordCheck(g, password, confirm, clock)
    IN  /\ Begin(p, [NoReq EXCEPT !.resetToken = token,
                                  !.password = password, !.confirm = confirm])
        /\ IF err # NoErr
           THEN /\ Finish(p, "ResetPassword", err, ResetPasswordStatus(err),
                          NoToken, NoUser,
                          IF password # confirm THEN NoUser ELSE g.user)
                /\ UNCHANGED usr
           ELSE /\ pc' = [pc EXCEPT ![p] = "rp_update"]
                /\ usr' = [usr EXCEPT ![p] = g.user]
                /\ UNCHANGED ret
        /\ UNCHANGED <<storeVars, uuids>>

\* AuthServiceImpl.ResetPassword, the new hash, the cleared token,
\* userRepo.Update and the return
ResetPasswordUpdate(p) ==
    LET u == [WithPassword(usr[p], req[p].password) EXCEPT
                  !.passwordResetToken = NilToken,
                  !.passwordResetExpiry = ZeroTime]
        r == Update(users, clock, u)
    IN  /\ pc[p] = "rp_update"
        /\ users' = r.users
        /\ Tick(r.err)
        /\ Finish(p, "ResetPassword", r.err, ResetPasswordStatus(r.err),
                  NoToken, IF r.err = NoErr THEN r.user ELSE NoUser, usr[p])
        /\ UNCHANGED <<nextID, req, usr, calls, uuids, mutex>>

\* AuthServiceImpl.ChangePassword, up to and including the check of the
\* current password, serving request r
ChangePasswordOf(p, r) ==
    LET g == GetByID(users, r.id)
        err == ChangePasswordCheck(g, r.current, r.password, r.confirm)
    IN  /\ Begin(p, r)
        /\ IF err # NoErr
           THEN /\ Finish(p, "ChangePassword", err, ChangePasswordStatus(err),
                          NoToken, NoUser,
                          IF r.password # r.confirm THEN NoUser ELSE g.user)
                /\ UNCHANGED usr
           ELSE /\ pc' = [pc EXCEPT ![p] = "cp_update"]
                /\ usr' = [usr EXCEPT ![p] = g.user]
                /\ UNCHANGED ret
        /\ UNCHANGED <<storeVars, uuids>>

StartChangePassword(p, id, current, password, confirm) ==
    ChangePasswordOf(p, [NoReq EXCEPT !.id = id, !.current = current,
                                     !.password = password,
                                     !.confirm = confirm])

\* AuthServiceImpl.ChangePassword, the new hash, userRepo.Update and the
\* return
ChangePasswordUpdate(p) ==
    LET r == Update(users, clock, WithPassword(usr[p], req[p].password))
    IN  /\ pc[p] = "cp_update"
        /\ users' = r.users
        /\ Tick(r.err)
        /\ Finish(p, "ChangePassword", r.err, ChangePasswordStatus(r.err),
                  NoToken, IF r.err = NoErr THEN r.user ELSE NoUser, usr[p])
        /\ UNCHANGED <<nextID, req, usr, calls, uuids, mutex>>

\* ---------------------------------------------------- direct store calls
\* the records a caller hands to the store: built as the repository tests
\* and the services build them, DeletedAt and the timestamps left zero
StoreArgs ==
    {[ZeroUser EXCEPT !.id = i, !.name = SvcName, !.email = e] :
        i \in Ids, e \in Emails}

\* goroutine p calls InMemoryUserRepository.Create
RepoCreate(p, u) ==
    LET r == Create(users, nextID, clock, u)
    IN  /\ pc[p] = "idle"
        /\ calls' = [calls EXCEPT ![p] = @ + 1]
        /\ req' = [req EXCEPT ![p] = [NoReq EXCEPT !.with = Running(p)]]
        /\ users' = r.users
        /\ nextID' = r.nextID
        /\ Tick(r.err)
        /\ pc' = pc
        /\ ret' = [ret EXCEPT ![p] = [NoRet EXCEPT !.op = "Create",
                       !.err = r.err, !.arg = u, !.user = r.user]]
        /\ UNCHANGED <<usr, uuids, mutex>>

\* goroutine p calls InMemoryUserRepository.Update
RepoUpdate(p, u) ==
    LET r == Update(users, clock, u)
    IN  /\ pc[p] = "idle"
        /\ calls' = [calls EXCEPT ![p] = @ + 1]
        /\ req' = [req EXCEPT ![p] = [NoReq EXCEPT !.with = Running(p)]]
        /\ users' = r.users
        /\ Tick(r.err)
        /\ pc' = pc
        /\ ret' = [ret EXCEPT ![p] = [NoRet EXCEPT !.op = "Update",
                       !.err = r.err, !.arg = u, !.user = r.user]]
        /\ UNCHANGED <<nextID, usr, uuids, mutex>>

\* goroutine p calls InMemoryUserRepository.Delete
RepoDelete(p, id) ==
    LET r == Delete(users, clock, id)
    IN  /\ pc[p] = "idle"
        /\ calls' = [calls EXCEPT ![p] = @ + 1]
        /\ req' = [req EXCEPT ![p] = [NoReq EXCEPT !.with = Running(p)]]
        /\ users' = r.users
        /\ Tick(r.err)
        /\ pc' = pc
        /\ ret' = [ret EXCEPT ![p] = [NoRet EXCEPT !.op = "Delete",
                       !.err = r.err, !.arg = [ZeroUser EXCEPT !.id = id]]]
        /\ UNCHANGED <<nextID, usr, uuids, mutex>>

\* one direct store call, while fewer than n calls have started
StoreCalls(n) ==
    /\ Started < n
    /\ \E p \in Procs :
        \/ \E u \in StoreArgs : u.id = 0 /\ RepoCreate(p, u)
        \/ \E u \in StoreArgs : RepoUpdate(p, u)
        \/ \E i \in Ids : RepoDelete(p, i)

StoreNext == StoreCalls(MaxStoreCalls)

\* goroutine p starts serving a request to the user service or to Register
\* or Login, while fewer than MaxCalls calls have started
SvcStart(p) ==
    \/ /\ Started < MaxCalls
       /\ \E e \in Emails : StartCreateUser(p, e, SvcName)
    \/ /\ Started < MaxCalls
       /\ \E i \in Ids, e \in Emails : StartUpdateUser(p, i, e, SvcName)
    \/ /\ Started < MaxCalls
       /\ \E i \in Ids : StartDeleteUser(p, i)
    \/ /\ Started < MaxCalls
       /\ \E e \in Emails, cf \in Passwords :
              StartRegister(p, e, SvcName, "password123", cf)
    \/ /\ Started < MaxCalls
       /\ \E e \in Emails, pw \in Passwords : StartLogin(p, e, pw)

\* goroutine p makes the next store call of the request it serves
SvcStep(p) ==
    \/ CreateUserCreate(p)
    \/ UpdateUserCheck(p)
    \/ UpdateUserUpdate(p)
    \/ DeleteUserDelete(p)
    \/ RegisterCreate(p)
    \/ RegisterUpdate(p)
    \/ LoginUpdate(p)

SvcNext ==
    \E p \in Procs : SvcStart(p) \/ SvcStep(p)

\* store calls only, as the repository tests make them
SpecStore == Init /\ [][StoreNext]_vars

\* service calls and direct store calls of concurrent goroutines
Next == StoreCalls(MaxCalls) \/ SvcNext

Spec == Init /\ [][Next]_vars

\* ------------------------------------------- requests through the router
\* Number of calls the goroutines may start in a run of authenticated
\* requests, the registration the run starts from included.
MaxAuthCalls == 3
\* Latest time the clock is advanced to between two calls.
MaxClock == 7

\* the id of the first registered user
Registered == 4

\* the record the first Register builds
FirstUser ==
    [ZeroUser EXCEPT !.name = SvcName, !.email = "new@example.com",
                     !.password = Hash("password123"), !.phone = ReqPhone,
                     !.isActive = TRUE, !.emailVerificationToken = 1]

\* the first Register's userRepo.Create, the record it then holds and its
\* userRepo.Update
FirstCreate == Create(SeedUsers(1), 4, 2, FirstUser)
FirstHeld == [FirstCreate.user EXCEPT !.lastLoginAt = 3]
FirstUpdate == Update(FirstCreate.users, 3, FirstHeld)

\* what goroutine 1 received from and returned for the first Register
FirstReq ==
    [NoReq EXCEPT !.email = "new@example.com", !.name = SvcName,
                  !.password = "password123", !.confirm = "password123"]
FirstRet ==
    [NoRet EXCEPT !.op = "Register", !.status = StatusCreated,
                  !.token = GenerateJWTToken(4, "new@example.com", 3),
                  !.user = FirstUpdate.user]

\* the state in which goroutine 1 has returned from
\* Register(new@example.com, password123) on the fresh store
InitAuth ==
    /\ users = FirstUpdate.users
    /\ nextID = FirstCreate.nextID
    /\ clock = 4
    /\ pc = [p \in Procs |-> "idle"]
    /\ req = [p \in Procs |-> IF p = 1 THEN FirstReq ELSE NoReq]
    /\ usr = [p \in Procs |-> IF p = 1 THEN FirstHeld ELSE NoUser]
    /\ ret = [p \in Procs |-> IF p = 1 THEN FirstRet ELSE NoRet]
    /\ calls = [p \in Procs |-> IF p = 1 THEN 1 ELSE 0]
    /\ uuids = 1
    /\ mutex = Unlocked

\* the tokens the clients hold: returned to them, or sent by them before
Held ==
    ({ret[q].token : q \in Procs} \cup {req[q].header.token : q \in Procs})
        \ {NoToken}

\* the tokens of S signed with a key that is not the service's
Forged(S) == {[t EXCEPT !.secret = OtherSecret] : t \in S}

\* the token strings a client may send
Presentable == Held \cup Forged(Held) \cup {NoToken}

\* "Bearer <token>"
Bearer(t) == [parts |-> 2, scheme |-> "Bearer", token |-> t]

\* the Authorization headers a client may send: none, "Bearer", "Basic "
\* and "Bearer <token>"
Headers ==
    {NoHeader, [parts |-> 1, scheme |-> "Bearer", token |-> NoToken],
     [parts |-> 2, scheme |-> "Basic", token |-> NoToken]}
        \cup {Bearer(t) : t \in Presentable}

\* time passes
Advance ==
    /\ clock < MaxClock
    /\ clock' = clock + 1
    /\ UNCHANGED <<users, nextID, pc, req, usr, ret, calls, uuids, mutex>>

\* goroutine p calls AuthServiceImpl.ValidateToken
CallValidateToken(p, tok) ==
    LET v == ValidateToken(tok, JwtSecret, clock)
    IN  /\ Begin(p, [NoReq EXCEPT !.header = Bearer(tok)])
        /\ Finish(p, "ValidateToken", v.err, 0, v.claims, NoUser, NoUser)
        /\ UNCHANGED <<storeVars, usr, uuids>>

\* the middleware answers the request itself (response.Error and c.Abort)
Rejected(p, mwname, route, h, mw) ==
    /\ Begin(p, [NoReq EXCEPT !.route = route, !.header = h])
    /\ Finish(p, mwname, mw.err, mw.status, NoToken, NoUser, NoUser)
    /\ UNCHANGED <<storeVars, usr, uuids>>

\* POST /auth/logout: AuthMiddleware, AuthHandler.Logout
ReqLogout(p, h) ==
    LET mw == AuthMiddleware(h, clock)
        err == Logout(users, mw.userID)
    IN  IF mw.err # NoErr
        THEN Rejected(p, "AuthMiddleware", "/auth/logout", h, mw)
        ELSE /\ Begin(p, [NoReq EXCEPT !.route = "/auth/logout",
                              !.header = h, !.id = mw.userID,
                              !.email = mw.email])
             /\ Finish(p, "Logout", err, LogoutStatus(err), NoToken, NoUser,
                       GetByID(users, mw.userID).user)
             /\ UNCHANGED <<storeVars, usr, uuids>>

\* POST /auth/refresh-token: AuthMiddleware, AuthHandler.RefreshToken
ReqRefreshToken(p, h) ==
    LET mw == AuthMiddleware(h, clock)
        r == RefreshToken(users, mw.userID, clock)
    IN  IF mw.err # NoErr
        THEN Rejected(p, "AuthMiddleware", "/auth/refresh-token", h, mw)
        ELSE /\ Begin(p, [NoReq EXCEPT !.route = "/auth/refresh-token",
                              !.header = h, !.id = mw.userID,
                              !.email = mw.email])
             /\ Finish(p, "RefreshToken", r.err, RefreshTokenStatus(r.err),
                       r.token, r.user, GetByID(users, mw.userID).user)
             /\ UNCHANGED <<storeVars, usr, uuids>>

\* DELETE /users/:id: AuthMiddleware, UserHandler.DeleteUser
ReqDeleteUser(p, h, id) ==
    LET mw == AuthMiddleware(h, clock)
    IN  IF mw.err # NoErr
        THEN Rejected(p, "AuthMiddleware", "/users/:id", h, mw)
        ELSE DeleteUserOf(p, [NoReq EXCEPT !.route = "/users/:id",
                                 !.header = h, !.id = id])

\* PUT /users/:id: AuthMiddleware, UserHandler.UpdateUser
ReqUpdateUser(p, h, id, email, name) ==
    LET mw == AuthMiddleware(h, clock)
    IN  IF mw.err # NoErr
        THEN Rejected(p, "AuthMiddleware", "/users/:id", h, mw)
        ELSE UpdateUserOf(p, [NoReq EXCEPT !.route = "/users/:id",
                                 !.header = h, !.id = id, !.email = email,
                                 !.name = name])

\* POST /auth/change-password: AuthMiddleware, AuthHandler.ChangePassword
\* with the user_id of the context
ReqChangePassword(p, h, current, password, confirm) ==
    LET mw == AuthMiddleware(h, clock)
    IN  IF mw.err # NoErr
        THEN Rejected(p, "AuthMiddleware", "/auth/change-password", h, mw)
        ELSE ChangePasswordOf(p, [NoReq EXCEPT
                                     !.route = "/auth/change-password",
                                     !.header = h, !.id = mw.userID,
                                     !.current = current,
                                     !.password = password,
                                     !.confirm = confirm])

\* GET /auth/me: EnhancedAuthMiddleware, AuthHandler.Me
ReqMe(p, h) ==
    LET mw == EnhancedAuthMiddleware(users, h, clock)
    IN  IF mw.err # NoErr
        THEN Rejected(p, "EnhancedAuthMiddleware", "/auth/me", h, mw)
        ELSE /\ Begin(p, [NoReq EXCEPT !.route = "/auth/me", !.header = h,
                              !.id = mw.userID, !.email = mw.email])
             /\ Finish(p, "Me", NoErr, StatusOK, NoToken, mw.user, mw.user)
             /\ UNCHANGED <<storeVars, usr, uuids>>

\* goroutine p starts a request
AuthStart(p) ==
    \/ /\ Started < MaxAuthCalls
       /\ \E pw \in Passwords : StartLogin(p, "new@example.com", pw)
    \/ /\ Started < MaxAuthCalls
       /\ \E t \in Presentable : CallValidateToken(p, t)
    \/ /\ Started < MaxAuthCalls
       /\ \E h \in Headers : ReqLogout(p, h)
    \/ /\ Started < MaxAuthCalls
       /\ \E h \in Headers : ReqRefreshToken(p, h)
    \/ /\ Started < MaxAuthCalls
       /\ \E h \in Headers : ReqDeleteUser(p, h, Registered)
    \/ /\ Started < MaxAuthCalls
       /\ \E h \in Headers :
              ReqUpdateUser(p, h, Registered, "changed@example.com", SvcName)
    \/ /\ Started < MaxAuthCalls
       /\ \E h \in Headers : ReqMe(p, h)
    \/ /\ Started < MaxAuthCalls
       /\ \E h \in Headers, cur \in Passwords :
              ReqChangePassword(p, h, cur, NewPassword, NewPassword)
    \/ /\ Started < MaxAuthCalls
       /\ \E u \in StoreArgs :
              u.id = Registered /\ u.email = "new@example.com" /\ RepoUpdate(p, u)

\* goroutine p makes the next store call of the request it serves
AuthStep(p) ==
    \/ LoginUpdate(p)
    \/ DeleteUserDelete(p)
    \/ UpdateUserCheck(p)
    \/ UpdateUserUpdate(p)
    \/ ChangePasswordUpdate(p)

AuthNext ==
    \/ \E p \in Procs : AuthStart(p) \/ AuthStep(p)
    \/ Advance

\* authenticated requests of concurrent goroutines after a registration
SpecAuth == InitAuth /\ [][AuthNext]_vars

\* --------------------------------------------------- password requests
\* Number of calls the goroutines may start in a run of password requests,
\* the registration and the ForgotPassword the run starts from included.
MaxPwCalls == 4

\* the reset tokens a client may present: the first and the second token
\* ForgotPassword issues and the token of the repository test
ResetTokens == {2, 3, TestResetToken}

\* the record the repository test creates: a reset token without an expiry
TestTokenUser ==
    [ZeroUser EXCEPT !.name = SvcName, !.email = "testuser@example.com",
                     !.passwordResetToken = TestResetToken]

\* the record the first ForgotPassword finds and the userRepo.Update it makes
SecondSeen == GetByEmail(FirstUpdate.users, "new@example.com").user
SecondUpdate ==
    Update(FirstUpdate.users, 4,
           [SecondSeen EXCEPT !.passwordResetToken = 2,
                              !.passwordResetExpiry = 4 + ResetExpiry])

\* the state in which, after the first Register, goroutine 2 has returned
\* from ForgotPassword(new@example.com)
InitPassword ==
    /\ users = SecondUpdate.users
    /\ nextID = FirstCreate.nextID
    /\ clock = 5
    /\ pc = [p \in Procs |-> "idle"]
    /\ req = [p \in Procs |->
                IF p = 1 THEN FirstReq
                ELSE [NoReq EXCEPT !.email = "new@example.com"]]
    /\ usr = [p \in Procs |-> IF p = 1 THEN FirstHeld ELSE SecondSeen]
    /\ ret = [p \in Procs |->
                IF p = 1 THEN FirstRet
                ELSE [NoRet EXCEPT !.op = "ForgotPassword",
                                   !.status = StatusOK,
                                   !.user = SecondUpdate.user,
                                   !.seen = SecondSeen]]
    /\ calls = [p \in Procs |-> 1]
    /\ uuids = 2
    /\ mutex = Unlocked

\* goroutine p starts a request
PwStart(p) ==
    \/ /\ Started < MaxPwCalls
       /\ \E e \in {"new@example.com", NoEmail} : StartForgotPassword(p, e)
    \/ /\ Started < MaxPwCalls
       /\ \E t \in ResetTokens, cf \in {NewPassword, "wrongpass"} :
              StartResetPassword(p, t, NewPassword, cf)
    \/ /\ Started < MaxPwCalls
       /\ \E i \in {0, Registered}, cur \in Passwords,
             cf \in {NewPassword, "wrongpass"} :
              StartChangePassword(p, i, cur, NewPassword, cf)
    \/ /\ Started < MaxPwCalls
       /\ \E pw \in {"password123", NewPassword} :
              StartLogin(p, "new@example.com", pw)
    \/ /\ Started < MaxPwCalls
       /\ StartDeleteUser(p, Registered)
    \/ /\ Started < MaxPwCalls
       /\ StartUpdateUser(p, Registered, "changed@example.com", SvcName)
    \/ /\ Started < MaxPwCalls
       /\ StartRegister(p, "testuser@example.com", SvcName, "password123",
                        "password123")
    \/ /\ Started < MaxPwCalls
       /\ RepoCreate(p, TestTokenUser)

\* goroutine p makes the next store call of the request it serves
PwStep(p) ==
    \/ ForgotPasswordUpdate(p)
    \/ ResetPasswordUpdate(p)
    \/ ChangePasswordUpdate(p)
    \/ LoginUpdate(p)
    \/ DeleteUserDelete(p)
    \/ UpdateUserCheck(p)
    \/ UpdateUserUpdate(p)
    \/ RegisterCreate(p)
    \/ RegisterUpdate(p)

PwNext ==
    \/ \E p \in Procs : PwStart(p) \/ PwStep(p)
    \/ Advance

\* password requests of concurrent goroutines after a registration and a
\* ForgotPassword
SpecPassword == InitPassword /\ [][PwNext]_vars

\* ------------------------------------------- store calls, lock by lock
\* Number of store calls the goroutines may start in a run that follows
\* each call through r.mutex.
MaxLockCalls == 2

\* every store method that only reads takes the read lock although the
\* other methods write
LockKind_AllShared(op) == "RLock"

\* the first statement of each store method: r.mutex.RLock() in GetAll,
\* GetByID, GetByEmail and Count, r.mutex.Lock() in Create, Update, Delete
\* and Reset
LockKind(op) ==
    IF op \in {"GetAll", "GetByID", "GetByEmail", "Count"} THEN "RLock"
    ELSE "Lock"

\* goroutine p calls store method op and stands before its first statement
LockCall(p, op, id, email, u) ==
    /\ pc[p] = "idle"
    /\ calls' = [calls EXCEPT ![p] = @ + 1]
    /\ req' = [req EXCEPT ![p] =
                  [NoReq EXCEPT !.op = op, !.id = id, !.email = email,
                                !.with = Running(p)]]
    /\ usr' = [usr EXCEPT ![p] = u]
    /\ pc' = [pc EXCEPT ![p] = "lock"]
    /\ UNCHANGED <<storeVars, ret, uuids>>

\* sync.RWMutex.RLock returns: no writer holds the mutex and no Lock() is
\* waiting for the readers to leave
RLock(p) ==
    /\ pc[p] = "lock"
    /\ LockKind(req[p].op) = "RLock"
    /\ mutex.w = 0
    /\ mutex.pending = 0
    /\ mutex' = [mutex EXCEPT !.r = @ \cup {p}]
    /\ pc' = [pc EXCEPT ![p] = "body"]
    /\ UNCHANGED <<users, nextID, clock, req, usr, ret, calls, uuids>>

\* sync.RWMutex.Lock: with no writer ahead of it, it returns when no reader
\* holds the mutex, and otherwise shuts new readers out and waits
Lock(p) ==
    /\ pc[p] = "lock"
    /\ LockKind(req[p].op) = "Lock"
    /\ mutex.w = 0
    /\ mutex.pending = 0
    /\ IF mutex.r = {}
       THEN /\ mutex' = [mutex EXCEPT !.w = p]
            /\ pc' = [pc EXCEPT ![p] = "body"]
       ELSE /\ mutex' = [mutex EXCEPT !.pending = p]
            /\ pc' = [pc EXCEPT ![p] = "pending"]
    /\ UNCHANGED <<users, nextID, clock, req, usr, ret, calls, uuids>>

\* sync.RWMutex.Lock returns to the waiting writer when the last reader
\* has left
LockGranted(p) ==
    /\ pc[p] = "pending"
    /\ mutex.pending = p
    /\ mutex.r = {}
    /\ mutex' = [mutex EXCEPT !.w = p, !.pending = 0]
    /\ pc' = [pc EXCEPT ![p] = "body"]
    /\ UNCHANGED <<users, nextID, clock, req, usr, ret, calls, uuids>>

\* goroutine p runs the body of the store method it is in, up to its return
\* statement; the outcome is r
Body(p, op, r) ==
    /\ pc[p] = "body"
    /\ req[p].op = op
    /\ pc' = [pc EXCEPT ![p] = "unlock"]
    /\ ret' = [ret EXCEPT ![p] = r]
    /\ UNCHANGED <<req, usr, calls, uuids, mutex>>

\* the body of InMemoryUserRepository.GetAll
GetAllBody(p) ==
    /\ Body(p, "GetAll", [NoRet EXCEPT !.op = "GetAll", !.all = GetAll(users)])
    /\ UNCHANGED <<users, nextID, clock>>

\* the body of InMemoryUserRepository.GetByID
GetByIDBody(p) ==
    LET r == GetByID(users, req[p].id)
    IN  /\ Body(p, "GetByID", [NoRet EXCEPT !.op = "GetByID", !.err = r.err,
                                             !.user = r.user])
        /\ UNCHANGED <<users, nextID, clock>>

\* the body of InMemoryUserRepository.GetByEmail
GetByEmailBody(p) ==
    LET r == GetByEmail(users, req[p].email)
    IN  /\ Body(p, "GetByEmail", [NoRet EXCEPT !.op = "GetByEmail",
                                                !.err = r.err,
                                                !.user = r.user])
        /\ UNCHANGED <<users, nextID, clock>>

\* the body of InMemoryUserRepository.Count
CountBody(p) ==
    /\ Body(p, "Count", [NoRet EXCEPT !.op = "Count", !.count = Count(users)])
    /\ UNCHANGED <<users, nextID, clock>>

\* the body of InMemoryUserRepository.Create
CreateBody(p) ==
    LET r == Create(users, nextID, clock, usr[p])
    IN  /\ Body(p, "Create", [NoRet EXCEPT !.op = "Create", !.err = r.err,
                                            !.arg = usr[p], !.user = r.user])
        /\ users' = r.users
        /\ nextID' = r.nextID
        /\ Tick(r.err)

\* the body of InMemoryUserRepository.Update
UpdateBody(p) ==
    LET r == Update(users, clock, usr[p])
    IN  /\ Body(p, "Update", [NoRet EXCEPT !.op = "Update", !.err = r.err,
                                            !.arg = usr[p], !.user = r.user])
        /\ users' = r.users
        /\ Tick(r.err)
        /\ UNCHANGED nextID

\* the body of InMemoryUserRepository.Delete
DeleteBody(p) ==
    LET r == Delete(users, clock, req[p].id)
    IN  /\ Body(p, "Delete", [NoRet EXCEPT !.op = "Delete", !.err = r.err,
                                 !.arg = [ZeroUser EXCEPT !.id = req[p].id]])
        /\ users' = r.users
        /\ Tick(r.err)
        /\ UNCHANGED nextID

\* the body of InMemoryUserRepository.Reset
ResetBody(p) ==
    LET r == Reset(clock)
    IN  /\ Body(p, "Reset", [NoRet EXCEPT !.op = "Reset"])
        /\ users' = r.users
        /\ nextID' = r.nextID
        /\ Tick(NoErr)

\* the deferred r.mutex.RUnlock() or r.mutex.Unlock() and the return to the
\* caller
Unlock(p) ==
    /\ pc[p] = "unlock"
    /\ mutex' = IF LockKind(req[p].op) = "RLock"
                THEN [mutex EXCEPT !.r = @ \ {p}]
                ELSE [mutex EXCEPT !.w = 0]
    /\ pc' = [pc EXCEPT ![p] = "idle"]
    /\ UNCHANGED <<users, nextID, clock, req, usr, ret, calls, uuids>>

\* goroutine p calls a store method
LockStart(p) ==
    \/ /\ Started < MaxLockCalls
       /\ LockCall(p, "GetAll", 0, "", NoUser)
    \/ /\ Started < MaxLockCalls
       /\ \E i \in {0, 1} : LockCall(p, "GetByID", i, "", NoUser)
    \/ /\ Started < MaxLockCalls
       /\ \E e \in Emails : LockCall(p, "GetByEmail", 0, e, NoUser)
    \/ /\ Started < MaxLockCalls
       /\ LockCall(p, "Count", 0, "", NoUser)
    \/ /\ Started < MaxLockCalls
       /\ \E u \in StoreArgs : u.id = 0 /\ LockCall(p, "Create", 0, "", u)
    \/ /\ Started < MaxLockCalls
       /\ \E u \in StoreArgs :
              u.id \in {0, 1} /\ u.email = "john@example.com"
                  /\ LockCall(p, "Update", 0, "", u)
    \/ /\ Started < MaxLockCalls
       /\ \E i \in {0, 1} : LockCall(p, "Delete", i, "", NoUser)
    \/ /\ Started < MaxLockCalls
       /\ LockCall(p, "Reset", 0, "", NoUser)

\* goroutine p makes the next step of the store method it is in
LockStep(p) ==
    \/ RLock(p)
    \/ Lock(p)
    \/ LockGranted(p)
    \/ GetAllBody(p)
    \/ GetByIDBody(p)
    \/ GetByEmailBody(p)
    \/ CountBody(p)
    \/ CreateBody(p)
    \/ UpdateBody(p)
    \/ DeleteBody(p)
    \/ ResetBody(p)
    \/ Unlock(p)

LockNext == \E p \in Procs : LockStart(p) \/ LockStep(p)

\* concurrent store calls, each followed through the mutex; a goroutine
\* that can take its next step is scheduled in the end
SpecLock ==
    /\ Init
    /\ [][LockNext]_vars
    /\ \A p \in Procs : WF_vars(LockStep(p))

\* ------------------------------------------- emails of deleted records
\* Number of calls the goroutines may start in a run that deletes records
\* and gives their emails to other records.
MaxReuseCalls == 3

\* goroutine p starts a call that deletes a record, creates one or moves
\* one to another email
ReuseStart(p) ==
    \/ /\ Started < MaxReuseCalls
       /\ \E i \in Ids : i # 0 /\ RepoDelete(p, i)
    \/ /\ Started < MaxReuseCalls
       /\ \E u \in StoreArgs : u.id = 0 /\ RepoCreate(p, u)
    \/ /\ Started < MaxReuseCalls
       /\ \E u \in StoreArgs : u.id # 0 /\ RepoUpdate(p, u)
    \/ /\ Started < MaxReuseCalls
       /\ \E e \in Emails : StartCreateUser(p, e, SvcName)
    \/ /\ Started < MaxReuseCalls
       /\ \E e \in Emails :
              StartRegister(p, e, SvcName, "password123", "password123")

\* goroutine p makes the next store call of the request it serves
ReuseStep(p) ==
    \/ CreateUserCreate(p)
    \/ RegisterCreate(p)
    \/ RegisterUpdate(p)

ReuseNext == \E p \in Procs : ReuseStart(p) \/ ReuseStep(p)

\* deletions, creations and moves of concurrent goroutines on the fresh
\* store
SpecReuse == Init /\ [][ReuseNext]_vars

\* ------------------------------------------------------------ properties
\* goroutine p's call of op returns in this step
Returned(p, op) ==
    /\ pc'[p] = "idle"
    /\ ret'[p].op = op
    /\ (pc[p] # "idle" \/ calls'[p] # calls[p])

\* some call of goroutine p returns in this step
ReturnedAny(p) ==
    /\ pc'[p] = "idle"
    /\ (pc[p] # "idle" \/ calls'[p] # calls[p])

\* some non-deleted record of us has email e
HoldsEmail(us, e) == \E i \in DOMAIN us : us[i].email = e /\ NotDeleted(us[i])

\* some non-deleted record of us with another id than u's has u's email
OtherHoldsEmail(us, u) ==
    \E i \in DOMAIN us :
        us[i].email = u.email /\ us[i].id # u.id /\ NotDeleted(us[i])

Deleted(us) == {i \in DOMAIN us : ~NotDeleted(us[i])}

\* C1: in every reachable state of the store, under every interleaving of
\* direct store calls and service calls, no two non-deleted records have the
\* same email.
C1_EmailUnique ==
    \A i, j \in DOMAIN users :
        (i # j /\ NotDeleted(users[i]) /\ NotDeleted(users[j]))
            => users[i].email # users[j].email

\* C1 witness: two service calls raced for one email and the store refused
\* the second Create.
C1_Witness ==
    \E p \in Procs :
        /\ ret[p].op \in {"CreateUser", "Register"}
        /\ ret[p].err = ErrEmailExists
        /\ HoldsEmail(users, req[p].email)

\* the calls of p and q overlapped in time (both idle, each with its latest
\* call finished)
Overlap(p, q) ==
    \/ <<q, calls[q]>> \in req[p].with
    \/ <<p, calls[p]>> \in req[q].with

\* C2: of two concurrent CreateUser calls with the same free email exactly
\* one succeeds and the other fails with 'user with this email already
\* exists', answered 409.
C2_ExactlyOneConflict ==
    \A p, q \in Procs :
        ( /\ p # q
          /\ pc[p] = "idle" /\ pc[q] = "idle"
          /\ ret[p].op = "CreateUser" /\ ret[q].op = "CreateUser"
          /\ req[p].email = req[q].email
          /\ Overlap(p, q)
          /\ ret[p].err = NoErr )
        => ( /\ ret[q].err = ErrUserExists
             /\ ret[q].status = StatusConflict )

\* C3 as stated: Create with an email a non-deleted record holds, and Update
\* with an email a non-deleted record of another id holds, fail with the
\* conflict error; a failed Create or Update changes no record and not the
\* next id.
C3_ConflictAlways ==
    [][\A p \in Procs :
        /\ (Returned(p, "Create") /\ HoldsEmail(users, ret'[p].arg.email))
              => ret'[p].err = ErrEmailExists
        /\ (Returned(p, "Update") /\ OtherHoldsEmail(users, ret'[p].arg))
              => ret'[p].err = ErrEmailExists
        /\ ((Returned(p, "Create") \/ Returned(p, "Update"))
                /\ ret'[p].err # NoErr)
              => (users' = users /\ nextID' = nextID)
      ]_vars

\* C3 amended: as C3, but Update fails with the conflict error only when its
\* id is the id of a non-deleted record; when no non-deleted record has the
\* id it fails with record-not-found, colliding email or not.
C3_ConflictWhenFound ==
    [][\A p \in Procs :
        /\ (Returned(p, "Create") /\ HoldsEmail(users, ret'[p].arg.email))
              => ret'[p].err = ErrEmailExists
        /\ (Returned(p, "Update") /\ OtherHoldsEmail(users, ret'[p].arg))
              => ret'[p].err =
                    IF GetByID(users, ret'[p].arg.id).err = NoErr
                    THEN ErrEmailExists ELSE ErrRecordNotFound
        /\ ((Returned(p, "Create") \/ Returned(p, "Update"))
                /\ ret'[p].err # NoErr)
              => (users' = users /\ nextID' = nextID)
      ]_vars

\* C3 witness: a Create and an Update were both refused for a colliding
\* email.
C3_Witness ==
    \E p, q \in Procs :
        /\ ret[p].op = "Create" /\ ret[p].err = ErrEmailExists
        /\ ret[q].op = "Update" /\ ret[q].err = ErrEmailExists
        /\ OtherHoldsEmail(users, ret[q].arg)

\* C4: ids are strictly increasing in creation order (so no id is held by
\* two records, deleted ones included), every id is below the next id to
\* assign, a record never changes its id, and a new record gets an id above
\* every id assigned before.
C4_IdsMonotonic ==
    /\ [](/\ \A i, j \in DOMAIN users : i < j => users[i].id < users[j].id
          /\ \A i \in DOMAIN users : users[i].id < nextID)
    /\ [][/\ nextID' >= nextID
          /\ \A i \in DOMAIN users :
                i \in DOMAIN users' /\ users'[i].id = users[i].id
          /\ \A i \in DOMAIN users' \ DOMAIN users :
                /\ users'[i].id >= nextID
                /\ \A k \in DOMAIN users : users'[i].id > users[k].id
         ]_vars

\* C4 witness: a record was created after another record had been deleted.
C4_Witness ==
    \E i, j \in DOMAIN users :
        /\ i < j
        /\ ~NotDeleted(users[i])
        /\ users[j].createdAt > users[i].deletedAt

C6_CreateRoundTrip ==
    [][\A p \in Procs :
        (Returned(p, "Create") /\ ~HoldsEmail(users, ret'[p].arg.email))
        => LET r == ret'[p]
               g == GetByID(users', r.user.id)
           IN  /\ r.err = NoErr
               /\ r.user.id = nextID
               /\ g.err = NoErr
               /\ g.user = [r.arg EXCEPT !.id = r.user.id,
                                         !.createdAt = r.user.createdAt,
                                         !.updatedAt = r.user.updatedAt]
      ]_vars

\* C6 witness: a Create succeeded and GetByID returns what it stored.
C6_Witness ==
    \E p \in Procs :
        /\ ret[p].op = "Create"
        /\ ret[p].err = NoErr
        /\ GetByID(users, ret[p].user.id).user = ret[p].user

\* C7 as stated: every change of a record (Create, Update and the soft
\* Delete) leaves its updated-at strictly greater than before.
C7_UpdatedAtAdvances ==
    [][\A i \in DOMAIN users' :
        IF i \in DOMAIN users
        THEN users'[i] # users[i]
                => users'[i].updatedAt > users[i].updatedAt
        ELSE users'[i].updatedAt > ZeroTime
      ]_vars

\* C7 amended: Create sets updated-at to the current time, a successful
\* Update leaves updated-at strictly greater than before and created-at
\* as it was, and the soft Delete sets only deleted-at: updated-at keeps its
\* value.
C7_UpdatedAtAdvancesOnWrite ==
    [][\A i \in DOMAIN users' :
        IF i \in DOMAIN users
        THEN users'[i] # users[i]
                => IF users'[i].deletedAt # users[i].deletedAt
                   THEN users'[i] = [users[i] EXCEPT !.deletedAt = clock]
                   ELSE /\ users'[i].updatedAt > users[i].updatedAt
                        /\ users'[i].createdAt = users[i].createdAt
        ELSE users'[i].updatedAt = clock /\ clock > ZeroTime
      ]_vars

\* C7 witness: one record was updated after its creation and another one
\* was deleted.
C7_Witness ==
    \E i, j \in DOMAIN users :
        /\ users[i].updatedAt > users[i].createdAt
        /\ ~NotDeleted(users[j])
        /\ users[j].updatedAt < users[j].deletedAt

\* C8: Count equals the number of non-deleted records and the length of
\* GetAll; a successful Create raises it by one, a successful Delete lowers
\* it by one, Update and every failed call leave it unchanged.
C8_Count ==
    /\ [](/\ Count(users) =
                Cardinality({i \in DOMAIN users : NotDeleted(users[i])})
          /\ Count(users) = Len(GetAll(users)))
    /\ [][\A p \in Procs :
            /\ (Returned(p, "Create") /\ ret'[p].err = NoErr)
                  => Count(users') = Count(users) + 1
            /\ (Returned(p, "Delete") /\ ret'[p].err = NoErr)
                  => Count(users') = Count(users) - 1
            /\ (Returned(p, "Update")
                    \/ (ReturnedAny(p) /\ ret'[p].err # NoErr))
                  => Count(users') = Count(users)
         ]_vars

\* C8 witness: a created record was deleted again and Count is back at the
\* number of seeded records.
C8_Witness ==
    \E p \in Procs :
        /\ ret[p].op = "Delete"
        /\ ret[p].err = NoErr
        /\ ret[p].arg.id >= 4
        /\ Count(users) = 3
        /\ Len(users) = 4

\* the password of a finished Login of p is not the account's password
WrongPassword(p) ==
    /\ pc[p] = "idle"
    /\ ret[p].op = "Login"
    /\ ~CompareHashAndPassword(ret[p].seen.password, req[p].password)

InactiveLogin(p) ==
    /\ pc[p] = "idle"
    /\ ret[p].op = "Login"
    /\ ret[p].seen # NoUser
    /\ ~ret[p].seen.isActive

Sent(p) == req[p].header.token

\* goroutine p's latest call returned a token the service issued
IssuedTo(p) ==
    /\ pc[p] = "idle"
    /\ ret[p].op \in {"Register", "Login", "RefreshToken"}
    /\ ret[p].err = NoErr

\* goroutine p presents a bearer token in this step: a ValidateToken call,
\* or a request to a route behind a middleware
Presents(p) ==
    /\ calls'[p] # calls[p]
    /\ req'[p].header.parts = 2
    /\ req'[p].header.scheme = "Bearer"

\* the token goroutine p presents in this step is refused by ValidateToken
Refused(p) ==
    /\ pc'[p] = "idle"
    /\ ret'[p].op \in {"ValidateToken", "AuthMiddleware",
                        "EnhancedAuthMiddleware"}
    /\ ret'[p].err \in {ErrTokenMalformed, ErrTokenSignature, ErrTokenExpired}

\* C11: every token a successful Register, Login or RefreshToken returned
\* is signed with the service's secret and expires JwtExpiry after it was
\* issued; whatever the store holds, ValidateToken (called directly or by a
\* middleware) accepts a token of the service at every time before the
\* token's expiry and rejects it at every time after it, and rejects a
\* token signed with another secret at every time.
C11_TokenLifetime ==
    /\ [](\A p \in Procs :
            IssuedTo(p) =>
                /\ ret[p].token.secret = JwtSecret
                /\ ret[p].token.exp = ret[p].token.iat + JwtExpiry
                /\ ret[p].token.iat <= clock)
    /\ [][\A p \in Procs :
            Presents(p) =>
                /\ (Sent(p)' # NoToken /\ Sent(p)'.secret = JwtSecret
                        /\ clock < Sent(p)'.exp)
                     => /\ ~Refused(p)
                        /\ Returned(p, "ValidateToken")
                             => (ret'[p].err = NoErr
                                    /\ ret'[p].token = Sent(p)')
                /\ (Sent(p)' # NoToken /\ Sent(p)'.secret = JwtSecret
                        /\ clock > Sent(p)'.exp)
                     => Refused(p)
                /\ Sent(p)'.secret # JwtSecret => Refused(p)]_vars

\* ValidateToken has accepted, for AuthMiddleware, the token of a user who
\* was deleted before: the Logout behind the middleware ran and did not
\* find the user
C11_Witness ==
    \E p \in Procs :
        /\ pc[p] = "idle"
        /\ ret[p].op = "Logout"
        /\ ret[p].err = ErrUserNotFound
        /\ Sent(p).secret = JwtSecret
        /\ Sent(p).userID = req[p].id
        /\ \E i \in DOMAIN users :
               users[i].id = req[p].id /\ ~NotDeleted(users[i])

\* C12: every ForgotPassword call returns success and is answered 200,
\* whether or not a non-deleted user has the email and whatever the other
\* goroutines do to the store between its lookup and its write.
C12_ForgotAlwaysSucceeds ==
    [][\A p \in Procs :
        Returned(p, "ForgotPassword") =>
            (ret'[p].err = NoErr /\ ret'[p].status = StatusOK)]_vars

\* goroutine p starts a ResetPassword call in this step
StartsReset(p) == calls'[p] # calls[p] /\ req'[p].resetToken # NilToken

\* no non-deleted record of us holds reset token t with an expiry that is
\* present and not earlier than now
NoLiveToken(us, t, now) ==
    \A i \in DOMAIN us :
        (us[i].passwordResetToken = t /\ NotDeleted(us[i]))
            => (us[i].passwordResetExpiry = ZeroTime
                    \/ us[i].passwordResetExpiry < now)

\* C13: a ResetPassword call with matching passwords whose token no record
\* holds, or whose holder's expiry is absent or earlier than now, returns
\* at once with 'invalid or expired reset token' and 400, the same in all
\* three cases, and changes no stored record.
C13_StaleTokenRejected ==
    [][\A p \in Procs :
        (StartsReset(p) /\ req'[p].password = req'[p].confirm
                /\ NoLiveToken(users, req'[p].resetToken, clock))
            => /\ pc'[p] = "idle"
               /\ ret'[p].op = "ResetPassword"
               /\ ret'[p].err = ErrInvalidReset
               /\ ret'[p].status = StatusBadRequest
               /\ users' = users]_vars

\* a ResetPassword call was refused for a token that a non-deleted record
\* holds with an expiry earlier than now
C13_Witness ==
    \E p \in Procs :
        /\ pc[p] = "idle"
        /\ ret[p].op = "ResetPassword"
        /\ ret[p].err = ErrInvalidReset
        /\ req[p].password = req[p].confirm
        /\ ret[p].seen # NoUser
        /\ ret[p].seen.passwordResetToken = req[p].resetToken
        /\ ret[p].seen.passwordResetExpiry # ZeroTime
        /\ ret[p].seen.passwordResetExpiry < clock

\* goroutine q's latest call was a ResetPassword that succeeded
HasReset(q) ==
    pc[q] = "idle" /\ ret[q].op = "ResetPassword" /\ ret[q].err = NoErr

\* C14: a reset token is used at most once: when a ResetPassword call
\* succeeds, no ResetPassword call of another goroutine that presented the
\* same token has succeeded before it.
C14_SingleUse ==
    [][\A p, q \in Procs :
        (p # q /\ Returned(p, "ResetPassword") /\ ret'[p].err = NoErr
                /\ HasReset(q))
            => req[q].resetToken # req'[p].resetToken]_vars

\* the passwords a client may try
AllPasswords == Passwords \cup {NewPassword, ""}

\* the record of us, deleted or not, with the given id
Stored(us, id) == us[CHOOSE i \in DOMAIN us : us[i].id = id]

\* C15: when Register, ChangePassword or ResetPassword returns success for
\* password p, the password field stored for that user is not p, p verifies
\* against it (so Login with p passes its checks when the user is active
\* and not deleted), and no other password verifies against it, the
\* previous one included.
C15_StoredHash ==
    [][\A p \in Procs :
        ((Returned(p, "Register") \/ Returned(p, "ChangePassword")
                \/ Returned(p, "ResetPassword")) /\ ret'[p].err = NoErr)
            => LET pw == req'[p].password
                   u == Stored(users', ret'[p].user.id)
               IN  /\ u.password # pw
                   /\ CompareHashAndPassword(u.password, pw)
                   /\ \A o \in (AllPasswords \cup {u.password}) \ {pw} :
                          ~CompareHashAndPassword(u.password, o)
                   /\ (NotDeleted(u) /\ u.isActive)
                        => LoginCheck(GetByEmail(users', u.email), pw) = NoErr
       ]_vars

\* ChangePassword has replaced a stored hash by the hash of another password
C15_Witness ==
    \E p \in Procs :
        /\ pc[p] = "idle"
        /\ ret[p].op = "ChangePassword"
        /\ ret[p].err = NoErr
        /\ ret[p].seen.password = Hash(req[p].current)
        /\ req[p].current # req[p].password
        /\ Stored(users, ret[p].user.id).password = Hash(req[p].password)

\* goroutine p starts a ChangePassword call in this step
StartsChange(p) == calls'[p] # calls[p] /\ req'[p].current # ""

\* goroutine p's ChangePassword call returns in this step with error err and
\* no stored record has changed
ChangeFails(p, err) ==
    /\ pc'[p] = "idle"
    /\ ret'[p].op = "ChangePassword"
    /\ ret'[p].err = err
    /\ users' = users
    /\ nextID' = nextID

\* C16: a ChangePassword call fails with 'passwords do not match' when new
\* and confirm differ (no record has been looked at); otherwise with 'user
\* not found' when no non-deleted user has the id; otherwise with 'current
\* password is incorrect' when the current password does not verify against
\* the stored one; in each case no stored record changes.
C16_ChangePasswordFailures ==
    [][\A p \in Procs :
        StartsChange(p) =>
            LET r == req'[p]
                g == GetByID(users, r.id)
            IN  /\ r.password # r.confirm
                    => (ChangeFails(p, ErrPasswordMismatch)
                            /\ ret'[p].seen = NoUser)
                /\ (r.password = r.confirm /\ g.err # NoErr)
                    => ChangeFails(p, ErrUserNotFound)
                /\ (r.password = r.confirm /\ g.err = NoErr
                        /\ ~CompareHashAndPassword(g.user.password, r.current))
                    => ChangeFails(p, ErrCurrentIncorrect)]_vars

\* a ChangePassword call for a stored user was refused for its current
\* password
C16_Witness ==
    \E p \in Procs :
        /\ pc[p] = "idle"
        /\ ret[p].op = "ChangePassword"
        /\ ret[p].err = ErrCurrentIncorrect
        /\ ret[p].seen.id = req[p].id
        /\ ret[p].seen.password # Hash(req[p].current)

\* goroutine q's latest call was a direct store call
DirectCall(q) == ret[q].op \in {"Create", "Update", "Delete"}

\* C17: a Register call whose password and confirmation differ fails with
\* 'passwords do not match'; a Register call that fails, fails with that
\* error or with 'user with this email already exists', whichever store
\* call of it met the non-deleted user with the email, under every
\* interleaving with Register and CreateUser calls; it is answered 400 and
\* leaves the records and the next id unchanged.
C17_RegisterFailures ==
    [][\A p \in Procs :
        (Returned(p, "Register") /\ ret'[p].err # NoErr
                /\ \A q \in Procs : ~DirectCall(q))
            => /\ ret'[p].err =
                      (IF req'[p].password # req'[p].confirm
                       THEN ErrPasswordMismatch ELSE ErrUserExists)
               /\ ret'[p].status = StatusBadRequest
               /\ users' = users
               /\ nextID' = nextID]_vars

\* the tokens of S that ValidateToken accepts at time now
Accepted(S, now) == {t \in S : ValidateToken(t, JwtSecret, now).err = NoErr}

\* C18: a Logout call succeeds exactly when a non-deleted user has the id
\* it is called with; it changes no stored state, and every token the
\* clients hold that ValidateToken accepted before the call is accepted
\* after it.
C18_LogoutFrame ==
    [][\A p \in Procs :
        Returned(p, "Logout") =>
            /\ (ret'[p].err = NoErr) <=>
                   (\E i \in DOMAIN users :
                        users[i].id = req'[p].id /\ NotDeleted(users[i]))
            /\ ret'[p].err \in {NoErr, ErrUserNotFound}
            /\ users' = users
            /\ nextID' = nextID
            /\ Accepted(Held, clock) \subseteq Accepted(Held, clock')]_vars

\* a Logout call has succeeded and the token it was made with is accepted
\* in the state after it
C18_Witness ==
    \E p \in Procs :
        /\ pc[p] = "idle"
        /\ ret[p].op = "Logout"
        /\ ret[p].err = NoErr
        /\ Sent(p).userID = req[p].id
        /\ Sent(p) \in Accepted(Held, clock)

\* the routes behind AuthMiddleware
Protected ==
    {"/auth/logout", "/auth/refresh-token", "/auth/change-password",
     "/users/:id"}

\* the routes whose handler reads the user_id of the context
UsesContext ==
    {"/auth/logout", "/auth/refresh-token", "/auth/change-password"}

\* AuthMiddleware answers goroutine p's request in this step with 401 and
\* message err; no record was looked at and nothing stored has changed
Answered401(p, err) ==
    /\ pc'[p] = "idle"
    /\ ret'[p].op = "AuthMiddleware"
    /\ ret'[p].status = StatusUnauthorized
    /\ ret'[p].err = err
    /\ ret'[p].seen = NoUser
    /\ ret'[p].user = NoUser
    /\ users' = users
    /\ nextID' = nextID

\* C19: a request to a route behind AuthMiddleware is answered 401
\* 'Authorization header required' without a header, 401 'Invalid
\* authorization format' with a header that is not 'Bearer <token>', and
\* 401 with ValidateToken's error with a token that is malformed, signed
\* with another secret or expired, in each case without touching the store;
\* otherwise the handler runs, and the user id it finds in the context is
\* the user_id claim of the token.
C19_AuthMiddleware ==
    [][\A p \in Procs :
        (calls'[p] # calls[p] /\ req'[p].route \in Protected) =>
            LET h == req'[p].header
                bearer == h.parts = 2 /\ h.scheme = "Bearer"
                good == /\ h.token # NoToken
                        /\ h.token.secret = JwtSecret
                        /\ clock < h.token.exp
            IN  /\ h = NoHeader => Answered401(p, ErrHeaderRequired)
                /\ (h # NoHeader /\ ~bearer)
                     => Answered401(p, ErrHeaderFormat)
                /\ (bearer /\ h.token = NoToken)
                     => Answered401(p, ErrTokenMalformed)
                /\ (bearer /\ h.token # NoToken
                        /\ h.token.secret # JwtSecret)
                     => Answered401(p, ErrTokenSignature)
                /\ (bearer /\ h.token # NoToken
                        /\ h.token.secret = JwtSecret
                        /\ ~(clock < h.token.exp))
                     => Answered401(p, ErrTokenExpired)
                /\ (bearer /\ good)
                     => /\ (pc'[p] # "idle" \/ ret'[p].op # "AuthMiddleware")
                        /\ req'[p].route \in UsesContext
                             => req'[p].id = h.token.userID]_vars

\* one request behind AuthMiddleware was served with the user id of its
\* token and another was answered 401 for its missing header
C19_Witness ==
    \E p, q \in Procs :
        /\ pc[p] = "idle" /\ pc[q] = "idle"
        /\ ret[p].op = "RefreshToken"
        /\ ret[p].err = NoErr
        /\ ret[p].token.userID = Sent(p).userID
        /\ req[q].route \in Protected
        /\ ret[q].op = "AuthMiddleware"
        /\ ret[q].err = ErrHeaderRequired

\* EnhancedAuthMiddleware answers goroutine p's request in this step with
\* 401 and message err, and nothing stored has changed
Enhanced401(p, err) ==
    /\ pc'[p] = "idle"
    /\ ret'[p].op = "EnhancedAuthMiddleware"
    /\ ret'[p].status = StatusUnauthorized
    /\ ret'[p].err = err
    /\ ret'[p].user = NoUser
    /\ users' = users

\* C20: a request to /auth/me with a token ValidateToken accepts is
\* answered 401, and Me does not run, when the token's user is soft-deleted
\* or not active at that time; when it is admitted, the record in the
\* context and in Me's answer is the record the store holds for the
\* token's user_id at that time, with its current email.
C20_EnhancedAuth ==
    [][\A p \in Procs :
        (calls'[p] # calls[p] /\ req'[p].route = "/auth/me"
                /\ req'[p].header.parts = 2
                /\ req'[p].header.scheme = "Bearer"
                /\ req'[p].header.token # NoToken
                /\ req'[p].header.token.secret = JwtSecret
                /\ clock < req'[p].header.token.exp) =>
            LET t == req'[p].header.token
                live == {i \in DOMAIN users :
                            users[i].id = t.userID /\ NotDeleted(users[i])}
            IN  /\ live = {} => Enhanced401(p, ErrMwUserNotFound)
                /\ \A i \in live :
                       IF ~users[i].isActive
                       THEN Enhanced401(p, ErrMwDeactivated)
                       ELSE /\ pc'[p] = "idle"
                            /\ ret'[p].op = "Me"
                            /\ ret'[p].status = StatusOK
                            /\ ret'[p].user = users[i]
                            /\ req'[p].id = t.userID
                            /\ req'[p].email = users[i].email
                            /\ users' = users]_vars

\* /auth/me was answered with a record whose email is no longer the email
\* in the token
C20_Witness ==
    \E p \in Procs :
        /\ pc[p] = "idle"
        /\ ret[p].op = "Me"
        /\ ret[p].user.id = Sent(p).userID
        /\ ret[p].user.email # Sent(p).email
        /\ req[p].email = ret[p].user.email

\* C21: on the user-management endpoints a duplicate email is answered 409:
\* every CreateUser and every UpdateUser call that fails with 'user with
\* this email already exists' is answered with status 409.
C21_Conflict409 ==
    \A p \in Procs :
        (pc[p] = "idle" /\ ret[p].op \in {"CreateUser", "UpdateUser"}
                /\ ret[p].err = ErrUserExists)
            => ret[p].status = StatusConflict

\* C22: DeleteUser and UpdateUser return success, 'user not found' (404) or
\* 'user with this email already exists', never an error of the store, in
\* every interleaving of service calls; of two concurrent DeleteUser calls
\* for one existing id, the one that does not succeed receives 'user not
\* found'.
C22_TranslatedErrors ==
    \A p \in Procs :
        (pc[p] = "idle" /\ ret[p].op \in {"DeleteUser", "UpdateUser"}
                /\ \A q \in Procs : ~DirectCall(q))
            => /\ ret[p].err \in {NoErr, ErrUserNotFound, ErrUserExists}
               /\ ret[p].err = ErrUserNotFound
                    => ret[p].status = StatusNotFound

\* C23: when a CreateUser call returns success, the user it returns and the
\* record the store holds for it have a password that is not empty and is
\* not the plaintext password of the request.
C23_CreateUserHashed ==
    [][\A p \in Procs :
        (Returned(p, "CreateUser") /\ ret'[p].err = NoErr)
            => LET u == Stored(users', ret'[p].user.id)
               IN  /\ ret'[p].user.password # ""
                   /\ ret'[p].user.password # req'[p].password
                   /\ u.password # ""
                   /\ u.password # req'[p].password]_vars

\* goroutine p makes a store call of the service method it runs in this step
ServiceStep(p) == pc[p] # "idle" /\ pc'[p] # pc[p]

\* C24: the record a Register or CreateUser call creates in the store has
\* active = true and email-verified = false right after its creation, and
\* no store call of a user-service or auth-service method changes the
\* active flag of a record that exists.
C24_ActiveByDefault ==
    [][\A p \in Procs :
        ServiceStep(p) =>
            /\ \A i \in DOMAIN users' \ DOMAIN users :
                   users'[i].isActive /\ ~users'[i].isEmailVerified
            /\ \A i \in DOMAIN users :
                   users'[i].isActive = users[i].isActive]_vars

\* goroutine p is inside the body of a store method, its deferred unlock
\* included
InBody(p) == pc[p] \in {"body", "unlock"}

\* goroutine p is inside the body of Create, Update, Delete or Reset
InWriteBody(p) == InBody(p) /\ LockKind(req[p].op) = "Lock"

\* C25: every store method holds the mutex for its whole body: while a
\* goroutine is inside Create, Update, Delete or Reset no other goroutine is
\* inside any store method; a goroutine inside a read method holds the read
\* lock, several of them may at once; a goroutine that has returned, with
\* or without an error, holds nothing; the store changes only in a step of
\* the goroutine that holds the write lock; and every call that has started
\* returns in the end, so no set of concurrent calls deadlocks.
C25_LockDiscipline ==
    /\ [](\A p \in Procs :
            /\ InWriteBody(p)
                 => /\ mutex.w = p /\ mutex.r = {}
                    /\ \A q \in Procs \ {p} : ~InBody(q)
            /\ (InBody(p) /\ ~InWriteBody(p))
                 => (p \in mutex.r /\ mutex.w = 0)
            /\ ~InBody(p) => (mutex.w # p /\ p \notin mutex.r))
    /\ [][(users' # users \/ nextID' # nextID)
            => \E p \in Procs : InWriteBody(p) /\ mutex.w = p
                                  /\ pc'[p] # pc[p]]_vars
    /\ \A p \in Procs : (pc[p] # "idle") ~> (pc[p] = "idle")

\* a write has returned with an error while the other goroutine's call,
\* started during it, was kept out, and that goroutine is now inside a
\* write method itself
C25_Witness ==
    \E p, q \in Procs :
        /\ pc[p] = "idle"
        /\ ret[p].op \in {"Create", "Update", "Delete"}
        /\ ret[p].err # NoErr
        /\ InWriteBody(q)
        /\ <<p, calls[p]>> \in req[q].with
        /\ mutex.w = q

\* two goroutines are inside read methods at once
C25_Readers ==
    \E p, q \in Procs :
        /\ p # q
        /\ InBody(p) /\ InBody(q)
        /\ mutex.r = {p, q}

\* the index in us of the non-deleted record with the given id, 0 when none
IndexOf(us, id) ==
    FirstIndex({k \in DOMAIN us : us[k].id = id /\ NotDeleted(us[k])})

\* C26: an UpdateUser call fails with 'user not found' when no non-deleted
\* user has its id and with 'user with this email already exists' when its
\* email is not the user's and another non-deleted user has it, a request
\* with the user's own email never conflicts, and the write of a call that
\* succeeds changes, in the store, exactly name, email, phone and address
\* (and updated-at) of the one record with the id: every other field of it,
\* password, active flag, tokens and last-login included, and every other
\* record stay as they were.
C26_UpdateUserFrame ==
    [][\A p \in Procs :
        /\ (calls'[p] # calls[p]
                /\ (pc'[p] \in {"uu_check", "uu_update"}
                       \/ Returned(p, "UpdateUser")))
             => LET g == GetByID(users, req'[p].id)
                IN  /\ g.err # NoErr
                        => (Returned(p, "UpdateUser")
                               /\ ret'[p].err = ErrUserNotFound
                               /\ users' = users)
                    /\ (g.err = NoErr /\ req'[p].email = g.user.email)
                        => pc'[p] = "uu_update"
        /\ (pc[p] = "uu_check" /\ pc'[p] # pc[p]
                /\ OtherHoldsEmail(users, [ZeroUser EXCEPT
                                              !.id = req[p].id,
                                              !.email = req[p].email]))
             => (Returned(p, "UpdateUser") /\ ret'[p].err = ErrUserExists
                    /\ users' = users)
        /\ (pc[p] = "uu_update" /\ Returned(p, "UpdateUser")
                /\ ret'[p].err = NoErr)
             => LET i == IndexOf(users, req[p].id)
                IN  /\ i # 0
                    /\ users' = [users EXCEPT ![i] =
                                    [users[i] EXCEPT
                                        !.name = req[p].name,
                                        !.email = req[p].email,
                                        !.phone = ReqPhone,
                                        !.address = NilStr,
                                        !.updatedAt = clock]]
                    /\ nextID' = nextID]_vars

\* C27: a RefreshToken call fails with 'user not found' when no non-deleted
\* user has the id and with 'account is deactivated' when that user is not
\* active, in both cases with 401 and no token; otherwise it succeeds
\* without a password in the request, and the token it returns carries the
\* id and the current email of the stored user, is issued now and expires
\* JwtExpiry later; the call changes nothing in the store, and the token
\* the request was made with, like every token the clients hold that was
\* valid before, is valid after it.
C27_RefreshToken ==
    [][\A p \in Procs :
        Returned(p, "RefreshToken") =>
            LET g == GetByID(users, req'[p].id)
                r == ret'[p]
            IN  /\ users' = users
                /\ nextID' = nextID
                /\ req'[p].password = "" /\ req'[p].current = ""
                /\ g.err # NoErr
                     => /\ r.err = ErrUserNotFound
                        /\ r.status = StatusUnauthorized
                        /\ r.token = NoToken
                /\ (g.err = NoErr /\ ~g.user.isActive)
                     => /\ r.err = ErrDeactivated
                        /\ r.status = StatusUnauthorized
                        /\ r.token = NoToken
                /\ (g.err = NoErr /\ g.user.isActive)
                     => /\ r.err = NoErr
                        /\ r.status = StatusOK
                        /\ r.user = g.user
                        /\ r.token = [userID |-> req'[p].id,
                                      email |-> g.user.email,
                                      iat |-> clock,
                                      exp |-> clock + JwtExpiry,
                                      secret |-> JwtSecret]
                        /\ ValidateToken(r.token, JwtSecret, clock').err
                               = NoErr
                /\ ValidateToken(Sent(p)', JwtSecret, clock').err = NoErr
                /\ Accepted(Held, clock) \subseteq Accepted(Held, clock')
      ]_vars

\* a RefreshToken call made with an older token has returned a token with a
\* later issue time and the user's new email, and the older token is still
\* valid
C27_Witness ==
    \E p \in Procs :
        /\ pc[p] = "idle"
        /\ ret[p].op = "RefreshToken"
        /\ ret[p].err = NoErr
        /\ ret[p].token.iat > Sent(p).iat
        /\ ret[p].token.email # Sent(p).email
        /\ ret[p].token.exp > Sent(p).exp
        /\ Sent(p) \in Accepted(Held, clock)

\* the reset token and expiry of record u
ResetFields(u) == <<u.passwordResetToken, u.passwordResetExpiry>>

\* goroutine p makes the userRepo.Update of its ForgotPassword or
\* ResetPassword call for the record with the given id in this step
WritesReset(p, id) ==
    /\ pc[p] \in {"fp_update", "rp_update"}
    /\ pc'[p] = "idle"
    /\ usr[p].id = id

\* C28: a ForgotPassword call for an email no non-deleted user has changes
\* nothing; for an email a non-deleted user has, its write stores on that
\* user, and on no other, a token never issued before with expiry now +
\* ResetExpiry in place of the earlier one; a ResetPassword call with
\* matching passwords and a stored token passes at every time up to the
\* expiry and is refused at every later time; and a stored token and its
\* expiry stay as they are until a ForgotPassword replaces them or a
\* ResetPassword clears them, so that a token lives until its expiry and a
\* replaced token never resets a password again.
C28_ResetTokenLifetime ==
    [][/\ \A p \in Procs :
            /\ (Returned(p, "ForgotPassword") /\ calls'[p] # calls[p])
                 => /\ ~HoldsEmail(users, req'[p].email)
                    /\ ret'[p].err = NoErr
                    /\ users' = users
            /\ (Returned(p, "ForgotPassword") /\ pc[p] = "fp_update"
                    /\ IndexOf(users, usr[p].id) # 0)
                 => LET i == IndexOf(users, usr[p].id)
                    IN  /\ ret'[p].err = NoErr
                        /\ users'[i].passwordResetToken = uuids'
                        /\ uuids' > uuids
                        /\ \A j \in DOMAIN users :
                               users[j].passwordResetToken # uuids'
                        /\ users'[i].passwordResetExpiry = clock + ResetExpiry
                        /\ \A j \in DOMAIN users \ {i} : users'[j] = users[j]
            /\ (StartsReset(p) /\ req'[p].password = req'[p].confirm)
                 => LET g == GetByPasswordResetToken(users,
                                                     req'[p].resetToken)
                    IN  (g.err = NoErr
                            /\ g.user.passwordResetExpiry # ZeroTime)
                        => IF clock <= g.user.passwordResetExpiry
                           THEN pc'[p] = "rp_update"
                           ELSE Returned(p, "ResetPassword")
                                    /\ ret'[p].err = ErrInvalidReset
            /\ (Returned(p, "ResetPassword") /\ ret'[p].err = NoErr)
                 => LET i == IndexOf(users', usr[p].id)
                    IN  ResetFields(users'[i]) = <<NilToken, ZeroTime>>
       /\ \A i \in DOMAIN users :
            ResetFields(users'[i]) # ResetFields(users[i])
                => \E p \in Procs : WritesReset(p, users[i].id)
      ]_vars

\* some deleted record of us has email e
DeletedHolds(us, e) == \E i \in Deleted(us) : us[i].email = e

\* goroutine p starts a CreateUser or a Register call in this step
StartsCreation(p) ==
    /\ calls'[p] # calls[p]
    /\ \/ pc'[p] \in {"cu_create", "reg_create"}
       \/ Returned(p, "CreateUser")
       \/ Returned(p, "Register")

\* C29: only non-deleted records count for the uniqueness of emails: when
\* no non-deleted record has email e, whether or not a deleted one has it,
\* Create with e succeeds with an id above every id assigned before,
\* CreateUser and Register with e pass their email check and their Create
\* succeeds, and Update of another existing record to e succeeds; and
\* GetByEmail(e) returns the non-deleted record with e when there is one
\* and not-found otherwise, never a deleted record.
C29_EmailReuse ==
    /\ [](\A e \in Emails :
            LET g == GetByEmail(users, e)
            IN  IF HoldsEmail(users, e)
                THEN /\ g.err = NoErr
                     /\ NotDeleted(g.user)
                     /\ g.user.email = e
                     /\ \E i \in DOMAIN users : users[i] = g.user
                ELSE g.err = ErrRecordNotFound)
    /\ [][\A p \in Procs :
            /\ (Returned(p, "Create")
                    /\ ~HoldsEmail(users, ret'[p].arg.email))
                 => /\ ret'[p].err = NoErr
                    /\ \A k \in DOMAIN users : users[k].id < ret'[p].user.id
                    /\ GetByEmail(users', ret'[p].arg.email).user.id
                           = ret'[p].user.id
            /\ (Returned(p, "Update")
                    /\ GetByID(users, ret'[p].arg.id).err = NoErr
                    /\ ~OtherHoldsEmail(users, ret'[p].arg))
                 => /\ ret'[p].err = NoErr
                    /\ GetByEmail(users', ret'[p].arg.email).user.id
                           = ret'[p].arg.id
            /\ (StartsCreation(p) /\ ~HoldsEmail(users, req'[p].email))
                 => pc'[p] \in {"cu_create", "reg_create"}
            /\ (pc[p] \in {"cu_create", "reg_create"} /\ pc'[p] # pc[p]
                    /\ ~HoldsEmail(users, usr[p].email))
                 => /\ pc'[p] = "idle" => ret'[p].err = NoErr
                    /\ Len(users') = Len(users) + 1
                    /\ users'[Len(users')].id = nextID
                    /\ \A k \in DOMAIN users :
                           users[k].id < users'[Len(users')].id
                    /\ GetByEmail(users', usr[p].email).user
                           = users'[Len(users')]
         ]_vars

\* CreateUser or Register has created a record with the email of a deleted
\* record, under a new id, and GetByEmail returns the new record
C29_Witness ==
    \E p \in Procs :
        /\ pc[p] = "idle"
        /\ ret[p].op \in {"CreateUser", "Register"}
        /\ ret[p].err = NoErr
        /\ DeletedHolds(users, req[p].email)
        /\ \A i \in Deleted(users) : users[i].id < ret[p].user.id
        /\ GetByEmail(users, req[p].email).user.id = ret[p].user.id

\* goroutine q's latest call was a ChangePassword or ResetPassword that
\* succeeded for the record with the given id
ChangedPassword(q, id) ==
    /\ pc[q] = "idle"
    /\ ret[q].op \in {"ChangePassword", "ResetPassword"}
    /\ ret[q].err = NoErr
    /\ ret[q].user.id = id

\* C30: when a ChangePassword or ResetPassword call has returned success
\* for a user, the userRepo.Update of a concurrent Login, Register,
\* ForgotPassword or UpdateUser call for that user, which read the record
\* before, leaves the stored password the new one and, after a
\* ResetPassword, the reset token cleared (ForgotPassword alone may store a
\* new token).
C30_NoLostUpdate ==
    [][\A p, q \in Procs :
        ( /\ p # q
          /\ pc[p] \in {"login_update", "reg_update", "fp_update",
                        "uu_update"}
          /\ pc'[p] = "idle"
          /\ ChangedPassword(q, usr[p].id)
          /\ IndexOf(users, usr[p].id) # 0 )
        => LET i == IndexOf(users, usr[p].id)
           IN  /\ users[i].password = ret[q].user.password
                    => users'[i].password = ret[q].user.password
               /\ (ret[q].op = "ResetPassword"
                       /\ users[i].passwordResetToken = NilToken
                       /\ pc[p] # "fp_update")
                    => users'[i].passwordResetToken = NilToken
      ]_vars

====
